---- MODULE Spec2Model ----
(***************************************************************************)
(* A model of the resource snapshot (pkg/resource/deploy/snapshot.go) and  *)
(* of the preview / confirm / apply orchestrator (pkg/backend/apply.go).   *)
(***************************************************************************)
EXTENDS Integers, Sequences, FiniteSets, TLC

VARIABLES
    \* VerifyIntegrity
    snap,          \* the *Snapshot handed to VerifyIntegrity (a value: stack, manifest, resources)
    verifyResult,  \* what VerifyIntegrity returned, or Pending before the call
    \* NewMagic
    manifests,     \* two Manifest values, "m1" and "m2"
    magicPc,       \* per manifest: "start", "computed", "stored", "recomputed"
    magicFirst,    \* per manifest: what the first NewMagic() returned
    magicSecond,   \* per manifest: what NewMagic() returned after the first result was stored
    \* Clone
    mem,           \* the memory: heap of resource.State records, backing arrays of slices
    snaps,         \* the Snapshot objects s and c (c is NoSnapshot until s.Clone() ran)
    mutated,       \* which of s and c the last mutation was applied to ("none" before any)
    nOps,          \* the number of mutations applied since the clone
    \* PreviewThenPrompt, PreviewThenPromptThenExecute
    entry,         \* the function that was called
    kind,          \* apitype.UpdateKind
    opts,          \* op.Opts: SkipPreview, AutoApprove, Engine.Experimental, Engine.GeneratePlan, Engine.Plan
    plans,         \* the heap of deploy.Plan objects (Engine.Plan is an address, 0 for nil)
    pc,            \* where the call stands: "start", "preview", "prompt", "real", "done"
    calls,         \* the invocations of the applier so far
    answers,       \* the outcomes of the confirmation prompts so far
    originalPlan,  \* the local originalPlan of PreviewThenPromptThenExecute
    previewPlan,   \* the plan the dry run returned
    returned,      \* what the called function returned: changes and result
    previewChanges,\* whether the changes the dry run returned hold any change
    eventsChannel, \* eventsChannel of PreviewThenPrompt: state, number of closes, events sent
    collector,     \* the goroutine ranging over eventsChannel: its position and the event it holds
    events,        \* the local events of PreviewThenPrompt (types of the events stored)
    printed,       \* what was written to the terminal, prompts included
    \* validateUnsupportedRemoteFlags
    flags,         \* the arguments of validateUnsupportedRemoteFlags
    flagsResult,   \* the error it returned
    \* parseEnv
    envInput,      \* the argument of parseEnv, a string as the sequence of its characters
    envResult,     \* what parseEnv returned: name, value, err
    \* runDeployment
    deployArgs,    \* the arguments of runDeployment and what its environment holds
    deployCalls,   \* the requests passed to the backend's RunDeployment
    deployResult,  \* the result.Result runDeployment returned
    \* the step executor
    execPlan,      \* the plan of the run: resource graph, kind of its steps, dry run, parallelism
    stepStatus,    \* the state of the step of each resource
    outstanding,   \* the counter of unresolved dependencies of each step
    cancelRequested, \* whether the cancellation signal has arrived
    workingSnap,   \* the resources of the shared working snapshot
    persisted,     \* the checkpoint store: the number of saves and the resources last saved
    execResult     \* how the run ended ("running" until it has)

verifyVars == <<snap, verifyResult>>
magicVars == <<manifests, magicPc, magicFirst, magicSecond>>
cloneVars == <<mem, snaps, mutated, nOps>>
applyVars ==
    <<entry, kind, opts, plans, pc, calls, answers, originalPlan, previewPlan, returned,
      previewChanges, eventsChannel, collector, events, printed>>
parseEnvVars == <<envInput, envResult>>
deployVars == <<deployArgs, deployCalls, deployResult>>
remoteVars == <<flags, flagsResult, parseEnvVars, deployVars>>
execVars ==
    <<execPlan, stepStatus, outstanding, cancelRequested, workingSnap, persisted, execResult>>
vars == <<verifyVars, magicVars, cloneVars, applyVars, remoteVars, execVars>>

(***************************************************************************)
(* Bounds of the model.                                                    *)
(***************************************************************************)
\* The longest resource list of a snapshot whose resources have parents and
\* dependencies.
MaxRes == 2

\* The longest resource list of a snapshot whose resources have none.
MaxPlain == 3

\* The number of mutations applied to a snapshot and its clone.
MaxOps == 2

\* The number of times the user asks for the details at the prompt.
MaxDetails == 1

\* The number of events the dry run sends on the events channel.
MaxEvents == 1

\* The number of unsupported flags set in one call of
\* validateUnsupportedRemoteFlags.
MaxSet == 3

\* The longest argument of parseEnv.
MaxEnvLen == 4

\* The number of --remote-env and --remote-env-secret values of one call of
\* runDeployment, taken together.
MaxEnv == 2

(***************************************************************************)
(* resource.State, Manifest, Snapshot                                      *)
(***************************************************************************)
URNs == {"a", "b"}

\* The empty URN: state.Parent of a resource without a parent.
NoURN == ""

ResourceStatusUnspecified == "unspecified"
ResourceStatusCreating == "creating"
ResourceStatusCreated == "created"
ResourceStatusDeleted == "deleted"

Statuses ==
    {ResourceStatusUnspecified, ResourceStatusCreating,
     ResourceStatusCreated, ResourceStatusDeleted}

\* Status.Live(): the resource has been created or updated successfully and exists.
Live(status) == status = ResourceStatusCreated

\* Dependencies: an ordered list of distinct URNs.
DepLists ==
    {<<>>} \cup {<<u>> : u \in URNs}
           \cup {d \in {<<u, v>> : u \in URNs, v \in URNs} : d[1] # d[2]}

\* Resources with a parent and dependencies, in the statuses other than
\* Unspecified. URNs are opaque (only compared), so one URN stands for the
\* parent: a resource of URN "a" may name itself, one of URN "b" another.
States ==
    [URN : URNs, Parent : {NoURN, "a"}, Dependencies : DepLists,
     Status : {ResourceStatusCreating, ResourceStatusCreated, ResourceStatusDeleted}]

\* Resources without parent and dependencies, in every status.
PlainStates ==
    [URN : URNs, Parent : {NoURN}, Dependencies : {<<>>}, Status : Statuses]

\* fmt.Sprintf("%x", sha256.Sum256([]byte(version))), tabulated for the
\* version strings of the model.
Sha256Hex(version) ==
    CASE version = "v1" ->
           "3bfc269594ef649228e9a74bab00f042efc91d5acc6fbee31a382e80d42388fe"
      [] version = "v2" ->
           "fb04dcb6970e4c3d1873de51fd5a50d7bb46b3383113602665c350ec40b5f990"

Versions == {"", "v1", "v2"}

Magics == {"", Sha256Hex("v1"), Sha256Hex("v2")}

Manifests == [Time : {0, 1}, Magic : Magics, Version : Versions, Plugins : {<<>>, <<"aws">>}]

\* NewMagic with a defect: a magic already stored on the manifest is returned
\* instead of being ignored.
NewMagicKeepsStored(m) ==
    IF m.Magic # "" THEN m.Magic
    ELSE IF m.Version = "" THEN "" ELSE Sha256Hex(m.Version)

\* Manifest.NewMagic
NewMagic(m) == IF m.Version = "" THEN "" ELSE Sha256Hex(m.Version)

RECURSIVE SeqsUpTo(_, _)
SeqsUpTo(S, n) ==
    IF n = 0 THEN {<<>>}
    ELSE LET shorter == SeqsUpTo(S, n - 1)
         IN  shorter \cup {Append(q, x) : q \in {p \in shorter : Len(p) = n - 1}, x \in S}

(***************************************************************************)
(* Snapshot.VerifyIntegrity                                                *)
(***************************************************************************)
\* errors.Errorf: the error's text is determined by which message it is and
\* by the two values formatted into it.
Errorf(msg, urn, ref) == [kind |-> msg, urn |-> urn, ref |-> ref]

NilError == Errorf("nil", "", "")

Pending == Errorf("pending", "", "")

\* for _, other := range snap.Resources[i+1:] { if other.URN == u ... }
\* (i is the 1-based index of the resource being checked)
ComesAfter(rs, i, u) == \E j \in (i + 1)..Len(rs) : rs[j].URN = u

\* ParentCheck with a defect: the parent is looked up among all the resources
\* of the snapshot instead of among those already visited.
ParentCheckAnywhere(rs, i, urns) ==
    LET state == rs[i]
        par == state.Parent
    IN  IF par # NoURN /\ par \notin {rs[j].URN : j \in 1..Len(rs)}
        THEN Errorf("missing parent", state.URN, par)
        ELSE NilError

\* if par := state.Parent; par != "" { if _, has := urns[par]; !has { ... } }
ParentCheck(rs, i, urns) ==
    LET state == rs[i]
        par == state.Parent
    IN  IF par # NoURN /\ par \notin urns
        THEN IF ComesAfter(rs, i, par)
             THEN Errorf("parent comes after", state.URN, par)
             ELSE Errorf("missing parent", state.URN, par)
        ELSE NilError

\* for _, dep := range state.Dependencies { ... }, from the k-th dependency on
RECURSIVE DependenciesCheck(_, _, _, _)
DependenciesCheck(rs, i, k, urns) ==
    LET state == rs[i]
    IN  IF k > Len(state.Dependencies) THEN NilError
        ELSE LET dep == state.Dependencies[k]
             IN  IF dep \notin urns
                 THEN IF ComesAfter(rs, i, dep)
                      THEN Errorf("dependency comes after", state.URN, dep)
                      ELSE Errorf("dependency missing", state.URN, dep)
                 ELSE DependenciesCheck(rs, i, k + 1, urns)

\* StatusCheck with a defect: the check for the deleted status is missing.
StatusCheckUnspecifiedOnly(state) ==
    IF state.Status = ResourceStatusUnspecified
    THEN Errorf("status unspecified", state.URN, "")
    ELSE NilError

\* the two status checks
StatusCheck(state) ==
    IF state.Status = ResourceStatusUnspecified
    THEN Errorf("status unspecified", state.URN, "")
    ELSE IF state.Status = ResourceStatusDeleted
         THEN Errorf("status deleted", state.URN, "")
         ELSE NilError

\* if seen, has := seenLive[urn]; has && seen && state.Status.Live() { ... }
LiveCheck(state, seenLive) ==
    IF /\ state.URN \in DOMAIN seenLive
       /\ seenLive[state.URN]
       /\ Live(state.Status)
    THEN Errorf("duplicate live", state.URN, state.Status)
    ELSE NilError

\* RecordLive with a defect: the entry is overwritten, so a later resource
\* that is not live makes an earlier live one forgotten.
RecordLiveOverwrite(state, seenLive) ==
    [u \in DOMAIN seenLive \cup {state.URN} |->
        IF u = state.URN THEN Live(state.Status) ELSE seenLive[u]]

\* seenLive[urn] = ... at the end of the loop body
RecordLive(state, seenLive) ==
    [u \in DOMAIN seenLive \cup {state.URN} |->
        IF u = state.URN
        THEN IF state.URN \notin DOMAIN seenLive
             THEN Live(state.Status)
             ELSE seenLive[state.URN] \/ Live(state.Status)
        ELSE seenLive[u]]

\* ResourceCheck with a defect: the status is checked before the parent and
\* the dependencies.
ResourceCheckStatusFirst(rs, i, urns, seenLive) ==
    LET perr == ParentCheck(rs, i, urns)
        derr == DependenciesCheck(rs, i, 1, urns)
        serr == StatusCheck(rs[i])
        lerr == LiveCheck(rs[i], seenLive)
    IN  IF serr # NilError THEN serr
        ELSE IF perr # NilError THEN perr
        ELSE IF derr # NilError THEN derr
        ELSE lerr

\* One iteration of the loop over snap.Resources: the first error of the
\* checks in their order, or nil.
ResourceCheck(rs, i, urns, seenLive) ==
    LET perr == ParentCheck(rs, i, urns)
        derr == DependenciesCheck(rs, i, 1, urns)
        serr == StatusCheck(rs[i])
        lerr == LiveCheck(rs[i], seenLive)
    IN  IF perr # NilError THEN perr
        ELSE IF derr # NilError THEN derr
        ELSE IF serr # NilError THEN serr
        ELSE lerr

\* for i, state := range snap.Resources { ... }, from index i on, with the
\* maps urns and seenLive as the earlier iterations left them
RECURSIVE VerifyResources(_, _, _, _)
VerifyResources(rs, i, urns, seenLive) ==
    IF i > Len(rs) THEN NilError
    ELSE LET err == ResourceCheck(rs, i, urns, seenLive)
         IN  IF err # NilError THEN err
             ELSE VerifyResources(rs, i + 1, urns \cup {rs[i].URN},
                                  RecordLive(rs[i], seenLive))

\* if snap.Manifest.Magic != snap.Manifest.NewMagic() { return ... }
MagicCheck(s) ==
    IF s.Manifest.Magic # NewMagic(s.Manifest)
    THEN Errorf("magic cookie mismatch", "", "")
    ELSE NilError

\* VerifyIntegrity with a defect: the magic cookie is checked after the
\* resources.
VerifyIntegrityMagicLast(s) ==
    IF VerifyResources(s.Resources, 1, {}, <<>>) # NilError
    THEN VerifyResources(s.Resources, 1, {}, <<>>)
    ELSE MagicCheck(s)

\* Snapshot.VerifyIntegrity: the error it returns, NilError for nil
VerifyIntegrity(s) ==
    LET merr == MagicCheck(s)
    IN  IF merr # NilError THEN merr
        ELSE VerifyResources(s.Resources, 1, {}, <<>>)

(***************************************************************************)
(* VerifyIntegrity applied to the snapshots of the model.                  *)
(***************************************************************************)
VerifyManifests ==
    {m \in Manifests : /\ m.Time = 0 /\ m.Plugins = <<>>
                       /\ m.Version \in {"", "v1"} /\ m.Magic \in {"", Sha256Hex("v1")}}

\* Short lists of resources with parents and dependencies, under a manifest
\* of version v1 with a right or a wrong magic.
RichSnapshots ==
    [Stack : {"dev"}, Manifest : {m \in VerifyManifests : m.Version = "v1"},
     Resources : SeqsUpTo(States, MaxRes)]

\* Longer lists of resources without parent and dependencies, under every manifest.
PlainSnapshots ==
    [Stack : {"dev"}, Manifest : VerifyManifests,
     Resources : SeqsUpTo(PlainStates, MaxPlain)]

\* The zero value of Manifest.
ZeroManifest == [Time |-> 0, Magic |-> "", Version |-> "", Plugins |-> <<>>]

MagicNames == {"m1", "m2"}

(***************************************************************************)
(* validateUnsupportedRemoteFlags                                          *)
(***************************************************************************)
\* errors.New(flag + " is not supported with --remote")
NotSupported(flag) == [flag |-> flag, text |-> " is not supported with --remote"]

NoError == [flag |-> "", text |-> "nil"]

NotCalled == [flag |-> "", text |-> "not called"]

\* The checks of validateUnsupportedRemoteFlags in the order of the source:
\* the condition of each `if` and the flag its error names.
RemoteChecks(f) ==
    <<[failed |-> f.expectNop, flag |-> "--expect-no-changes"],
      [failed |-> Len(f.configArray) > 0, flag |-> "--config"],
      [failed |-> f.configPath, flag |-> "--config-path"],
      [failed |-> f.client # "", flag |-> "--client"],
      [failed |-> f.jsonDisplay, flag |-> "--json"],
      [failed |-> Len(f.policyPackPaths) > 0, flag |-> "--policy-pack"],
      [failed |-> Len(f.policyPackConfigPaths) > 0, flag |-> "--policy-pack-config"],
      [failed |-> f.refresh # "", flag |-> "--refresh"],
      [failed |-> f.showConfig, flag |-> "--show-config"],
      [failed |-> f.showReplacementSteps, flag |-> "--show-replacement-steps"],
      [failed |-> f.showSames, flag |-> "--show-sames"],
      [failed |-> f.showReads, flag |-> "--show-reads"],
      [failed |-> f.suppressOutputs, flag |-> "--suppress-outputs"],
      [failed |-> f.secretsProvider # "default", flag |-> "--secrets-provider"],
      [failed |-> ~f.targets.isNil /\ Len(f.targets.list) > 0, flag |-> "--target"],
      [failed |-> Len(f.replaces) > 0, flag |-> "--replace"],
      [failed |-> Len(f.replaces) > 0, flag |-> "--replace"],
      [failed |-> Len(f.targetReplaces) > 0, flag |-> "--target-replace"],
      [failed |-> f.targetDependents, flag |-> "--target-dependents"],
      [failed |-> f.planFilePath # "", flag |-> "--plan"],
      [failed |-> f.stackConfigFile # "", flag |-> "--config-file"]>>

\* The checks run from number i on: the error of the first that fails.
RECURSIVE RunChecks(_, _)
RunChecks(checks, i) ==
    IF i > Len(checks) THEN NoError
    ELSE IF checks[i].failed THEN NotSupported(checks[i].flag)
    ELSE RunChecks(checks, i + 1)

\* validateUnsupportedRemoteFlags with a defect: an empty --secrets-provider
\* is taken for the default.
validateAcceptsEmptyProvider(f) ==
    RunChecks(RemoteChecks([f EXCEPT !.secretsProvider =
                               IF @ = "" THEN "default" ELSE @]), 1)

\* validateUnsupportedRemoteFlags with a defect: --config-path is checked
\* before --config.
validateConfigPathFirst(f) ==
    IF f.configPath /\ ~f.expectNop THEN NotSupported("--config-path")
    ELSE RunChecks(RemoteChecks(f), 1)

validateUnsupportedRemoteFlags(f) == RunChecks(RemoteChecks(f), 1)

\* The parameters by type, in the order of the signature.
BoolFlags ==
    {"expectNop", "configPath", "jsonDisplay", "showConfig", "showReplacementSteps",
     "showSames", "showReads", "suppressOutputs", "targetDependents"}

StringFlags == {"client", "refresh", "planFilePath", "stackConfigFile"}

ListFlags == {"configArray", "policyPackPaths", "policyPackConfigPaths", "replaces", "targetReplaces"}

FlagParams == BoolFlags \cup StringFlags \cup ListFlags \cup {"secretsProvider", "targets"}

\* The values a parameter has when its flag was not given: the defaults of
\* the command line; targets may be nil or point to an empty list.
UnsetValues(name) ==
    CASE name \in BoolFlags -> {FALSE}
      [] name \in StringFlags -> {""}
      [] name \in ListFlags -> {<<>>}
      [] name = "secretsProvider" -> {"default"}
      [] name = "targets" -> {[isNil |-> TRUE, list |-> <<>>], [isNil |-> FALSE, list |-> <<>>]}

\* The values of a parameter whose flag was given.
SetValues(name) ==
    CASE name \in BoolFlags -> {TRUE}
      [] name \in StringFlags -> {"x"}
      [] name \in ListFlags -> {<<"x">>}
      [] name = "secretsProvider" -> {"", "passphrase"}
      [] name = "targets" -> {[isNil |-> FALSE, list |-> <<"x">>]}

\* The sets of at most n elements of S.
RECURSIVE SubsetsUpTo(_, _)
SubsetsUpTo(S, n) ==
    IF n = 0 THEN {{}}
    ELSE LET smaller == SubsetsUpTo(S, n - 1)
         IN  smaller \cup {T \cup {x} : T \in smaller, x \in S}

\* The arguments with no flag given.
DefaultFlags ==
    [name \in FlagParams |->
        IF name = "targets" THEN [isNil |-> TRUE, list |-> <<>>]
        ELSE CHOOSE v \in UnsetValues(name) : TRUE]

(***************************************************************************)
(* parseEnv                                                                *)
(***************************************************************************)
\* The characters of the strings of the model.
Chars == {"A", "B", "="}

\* The strings of at most n characters.
Strings(n) == UNION {[1..k -> Chars] : k \in 0..n}

\* strings.Index(str, "="): the position of the first "=", counted from 1;
\* 0 for Go's -1.
Index(str) ==
    IF \E i \in 1..Len(str) : str[i] = "="
    THEN CHOOSE i \in 1..Len(str) :
            str[i] = "=" /\ \A j \in 1..(i - 1) : str[j] # "="
    ELSE 0

\* strings.SplitN with a defect: the string is cut at the last "=".
SplitAtLast(str) ==
    IF \E i \in 1..Len(str) : str[i] = "="
    THEN LET i == CHOOSE k \in 1..Len(str) :
                     str[k] = "=" /\ \A j \in (k + 1)..Len(str) : str[j] # "="
         IN  <<SubSeq(str, 1, i - 1), SubSeq(str, i + 1, Len(str))>>
    ELSE <<str>>

\* strings.SplitN(str, "=", 2): the string whole when it has no "=", else
\* the text before the first "=" and the text after it.
SplitN(str) ==
    IF Index(str) = 0 THEN <<str>>
    ELSE <<SubSeq(str, 1, Index(str) - 1), SubSeq(str, Index(str) + 1, Len(str))>>

\* The results of parseEnv.
EnvOk(name, value) == [name |-> name, value |-> value, err |-> "nil"]

EnvError(err) == [name |-> <<>>, value |-> <<>>, err |-> err]

EnvNotCalled == [name |-> <<>>, value |-> <<>>, err |-> "not called"]

parseEnv(input) ==
    LET pair == SplitN(input)
    IN  IF Len(pair) # 2
        THEN EnvError("expected value of the form NAME=value: missing =")
        ELSE IF pair[1] = <<>>
             THEN EnvError("expected non-empty environment name")
             ELSE EnvOk(pair[1], pair[2])

(***************************************************************************)
(* runDeployment                                                           *)
(***************************************************************************)
\* apitype.SecretValue
SecretValue(value, secret) == [Value |-> value, Secret |-> secret]

\* A pointer: nil, or the address of a value.
NilPointer == [isNil |-> TRUE, val |-> <<>>]

PointerTo(val) == [isNil |-> FALSE, val |-> val]

\* The loop over append(args.envVars, args.secretEnvVars...) from entry i on,
\* nPlain being len(args.envVars): the map it builds, or the error of parseEnv.
RECURSIVE BuildEnv(_, _, _, _)
BuildEnv(entries, i, nPlain, env) ==
    IF i > Len(entries) THEN [err |-> "nil", env |-> env]
    ELSE LET parsed == parseEnv(entries[i])
         IN  IF parsed.err # "nil" THEN [err |-> parsed.err, env |-> env]
             ELSE BuildEnv(entries, i + 1, nPlain,
                           [n \in DOMAIN env \cup {parsed.name} |->
                               IF n = parsed.name
                               THEN SecretValue(parsed.value, i > nPlain)
                               ELSE env[n]])

\* apitype.SSHAuth, apitype.BasicAuth, apitype.GitAuthConfig
SSHAuth(key, password) == [SSHPrivateKey |-> key, Password |-> password]

BasicAuth(userName, password) == [UserName |-> userName, Password |-> password]

GitAuthConfig(token, ssh, basic) ==
    [PersonalAccessToken |-> token, SSHAuth |-> ssh, BasicAuth |-> basic]

\* The content os.ReadFile returns when it succeeds.
KeyFileContent == "key read from file"

\* The part of runDeployment that sets gitAuth; a.keyFileReadable tells
\* whether os.ReadFile succeeds.
GitAuth(a) ==
    IF /\ a.gitAuthAccessToken = ""
       /\ a.gitAuthSSHPrivateKey = ""
       /\ a.gitAuthSSHPrivateKeyPath = ""
       /\ a.gitAuthPassword = ""
       /\ a.gitAuthUsername = ""
    THEN [err |-> "nil", gitAuth |-> NilPointer]
    ELSE IF a.gitAuthAccessToken # ""
    THEN [err |-> "nil",
          gitAuth |-> PointerTo(GitAuthConfig(
                          PointerTo(SecretValue(a.gitAuthAccessToken, TRUE)),
                          NilPointer, NilPointer))]
    ELSE IF a.gitAuthSSHPrivateKey # "" \/ a.gitAuthSSHPrivateKeyPath # ""
    THEN IF a.gitAuthSSHPrivateKeyPath # "" /\ ~a.keyFileReadable
         THEN [err |-> "reading SSH private key path", gitAuth |-> NilPointer]
         ELSE LET key == IF a.gitAuthSSHPrivateKeyPath # ""
                         THEN SecretValue(KeyFileContent, TRUE)
                         ELSE SecretValue(a.gitAuthSSHPrivateKey, TRUE)
                  password == IF a.gitAuthPassword # ""
                              THEN PointerTo(SecretValue(a.gitAuthPassword, TRUE))
                              ELSE NilPointer
              IN  [err |-> "nil",
                   gitAuth |-> PointerTo(GitAuthConfig(
                                   NilPointer, PointerTo(SSHAuth(key, password)), NilPointer))]
    ELSE IF a.gitAuthUsername # ""
    THEN LET password == IF a.gitAuthPassword # ""
                         THEN SecretValue(a.gitAuthPassword, TRUE)
                         ELSE SecretValue("", FALSE)
         IN  [err |-> "nil",
              gitAuth |-> PointerTo(GitAuthConfig(
                              NilPointer, NilPointer,
                              PointerTo(BasicAuth(SecretValue(a.gitAuthUsername, TRUE), password))))]
    ELSE [err |-> "nil", gitAuth |-> PointerTo(GitAuthConfig(NilPointer, NilPointer, NilPointer))]

\* req := apitype.CreateDeploymentRequest{...}
CreateDeploymentRequest(a, env, gitAuth) ==
    [Source |-> [Git |-> [RepoURL |-> a.url,
                          Branch |-> a.gitBranch,
                          RepoDir |-> a.gitRepoDir,
                          GitAuth |-> gitAuth]],
     Operation |-> [Operation |-> a.operation,
                    PreRunCommands |-> a.preRunCommands,
                    EnvironmentVariables |-> env]]

\* return result.FromError(err) before RunDeployment is reached
Rejected(err) == [result |-> err, calls |-> <<>>]

\* runDeployment with a defect: a call with both a branch and a commit goes
\* through.
runDeploymentAllowsBoth(a, runErr) ==
    IF a.backend # "httpstate" \/ ~a.stackOk \/ a.url = ""
       \/ (a.gitCommit = "" /\ a.gitBranch = "")
    THEN Rejected("rejected")
    ELSE LET env == BuildEnv(a.envVars \o a.secretEnvVars, 1, Len(a.envVars), <<>>)
             auth == GitAuth(a)
         IN  IF env.err # "nil" THEN Rejected(env.err)
             ELSE IF auth.err # "nil" THEN Rejected(auth.err)
             ELSE [result |-> IF runErr THEN "RunDeployment failed" ELSE "nil",
                   calls |-> <<CreateDeploymentRequest(a, env.env, auth.gitAuth)>>]

\* runDeployment: the result it returns and the requests it passes to
\* cb.RunDeployment; runErr tells whether RunDeployment returns an error.
runDeployment(a, runErr) ==
    IF a.backend = "error" THEN Rejected("currentBackend failed")
    ELSE IF a.backend # "httpstate"
    THEN Rejected("the Pulumi service backend must be used for remote operations")
    ELSE IF ~a.stackOk THEN Rejected("ParseStackReference failed")
    ELSE IF a.url = "" THEN Rejected("the url arg must be specified")
    ELSE IF a.gitCommit # "" /\ a.gitBranch # ""
    THEN Rejected("--remote-git-branch and --remote-git-commit cannot both be specified")
    ELSE IF a.gitCommit = "" /\ a.gitBranch = ""
    THEN Rejected("either --remote-git-branch or --remote-git-commit is required")
    ELSE LET env == BuildEnv(a.envVars \o a.secretEnvVars, 1, Len(a.envVars), <<>>)
             auth == GitAuth(a)
         IN  IF env.err # "nil" THEN Rejected(env.err)
             ELSE IF auth.err # "nil" THEN Rejected(auth.err)
             ELSE [result |-> IF runErr THEN "RunDeployment failed" ELSE "nil",
                   calls |-> <<CreateDeploymentRequest(a, env.env, auth.gitAuth)>>]

\* The values of --remote-env and --remote-env-secret in the calls of the
\* model: two well-formed entries of one name, one without a name, one
\* without "=".
EnvEntries == {<<"A", "=", "B">>, <<"A", "=">>, <<"=", "A">>, <<"A">>}

\* The arguments of runDeployment with nothing given.
NoDeployArgs ==
    [backend |-> "error", stackOk |-> FALSE, operation |-> "", url |-> "",
     gitBranch |-> "", gitCommit |-> "", gitRepoDir |-> "",
     envVars |-> <<>>, secretEnvVars |-> <<>>, preRunCommands |-> <<>>,
     gitAuthAccessToken |-> "", gitAuthSSHPrivateKey |-> "",
     gitAuthSSHPrivateKeyPath |-> "", gitAuthPassword |-> "", gitAuthUsername |-> "",
     keyFileReadable |-> TRUE]

IdleDeploy ==
    /\ deployArgs = NoDeployArgs
    /\ deployCalls = <<>>
    /\ deployResult = "not called"

(***************************************************************************)
(* The step executor: it runs the steps of a plan against the providers,   *)
(* at most a bounded number at a time, each step after the steps it waits  *)
(* for, and applies one mutation to the working snapshot per completed     *)
(* step.                                                                   *)
(***************************************************************************)
\* The largest bound on the steps in flight.
MaxInFlight == 2

StepURNs == {"a", "b", "c"}

GoalState(urn, parent, dependencies) ==
    [URN |-> urn, Parent |-> parent, Dependencies |-> dependencies]

\* The resource graphs of the plans: a parent with a child and a dependent,
\* a chain, and a resource that depends on two others.
Graphs ==
    {<<GoalState("a", NoURN, <<>>), GoalState("b", "a", <<>>), GoalState("c", NoURN, <<"a">>)>>,
     <<GoalState("a", NoURN, <<>>), GoalState("b", NoURN, <<"a">>), GoalState("c", "b", <<>>)>>,
     <<GoalState("a", NoURN, <<>>), GoalState("b", NoURN, <<>>), GoalState("c", NoURN, <<"a", "b">>)>>}

StepPending == "Pending"
StepRunning == "Running"
StepSucceeded == "Succeeded"
StepFailed == "Failed"
StepSkipped == "Skipped"

URNsOf(goal) == {goal[i].URN : i \in 1..Len(goal)}

ResourceOf(goal, urn) == goal[CHOOSE i \in 1..Len(goal) : goal[i].URN = urn]

\* The parent and the declared dependencies of a resource.
References(res) ==
    (IF res.Parent = NoURN THEN {} ELSE {res.Parent})
        \cup {res.Dependencies[k] : k \in 1..Len(res.Dependencies)}

\* The children and the dependents of a resource.
Referrers(goal, urn) == {u \in URNsOf(goal) : urn \in References(ResourceOf(goal, u))}

\* WaitsFor with a defect: deletes run in the order of creates.
WaitsForForward(p, urn) == References(ResourceOf(p.goal, urn))

\* The steps whose success the step for urn waits for: those of its parent
\* and dependencies, and for a delete those of its children and dependents.
WaitsFor(p, urn) ==
    IF p.op = "delete"
    THEN Referrers(p.goal, urn)
    ELSE References(ResourceOf(p.goal, urn))

\* The counters of unresolved dependencies when the run starts.
Unresolved(p) == [u \in URNsOf(p.goal) |-> Cardinality(WaitsFor(p, u))]

\* The steps that wait, directly or not, for a step of S.
RECURSIVE Downstream(_, _)
Downstream(p, S) ==
    LET more == S \cup {u \in URNsOf(p.goal) : WaitsFor(p, u) \cap S # {}}
    IN  IF more = S THEN S ELSE Downstream(p, more)

InFlight == Cardinality({u \in DOMAIN stepStatus : stepStatus[u] = StepRunning})

\* MayStart with a defect: cancellation does not stop new steps.
MayStartAfterCancel(urn) ==
    /\ execResult = "running"
    /\ stepStatus[urn] = StepPending
    /\ outstanding[urn] = 0
    /\ InFlight < execPlan.parallel

\* A step is issued when the run is not cancelRequested, its counter of unresolved
\* dependencies is zero and the bound on the steps in flight allows it.
MayStart(urn) ==
    /\ execResult = "running"
    /\ ~cancelRequested
    /\ stepStatus[urn] = StepPending
    /\ outstanding[urn] = 0
    /\ InFlight < execPlan.parallel

\* The one mutation a completed step applies to the working snapshot.
Mutate(snapshot, p, urn) ==
    IF p.op = "delete"
    THEN SelectSeq(snapshot, LAMBDA r : r.URN # urn)
    ELSE Append(snapshot, ResourceOf(p.goal, urn))

\* Save of the checkpoint store; a dry run never calls it.
Save(store, p, snapshot) ==
    IF p.dryRun THEN store ELSE [saves |-> store.saves + 1, Resources |-> snapshot]

RunResult ==
    IF cancelRequested THEN "interrupted"
    ELSE IF \E u \in DOMAIN stepStatus : stepStatus[u] = StepFailed THEN "failed"
    ELSE "succeeded"

IdleExec ==
    /\ execPlan = [goal |-> <<>>, op |-> "create", dryRun |-> TRUE, parallel |-> 1]
    /\ stepStatus = <<>>
    /\ outstanding = <<>>
    /\ cancelRequested = FALSE
    /\ workingSnap = <<>>
    /\ persisted = [saves |-> 0, Resources |-> <<>>]
    /\ execResult = "none"

IdleEnv ==
    /\ envInput = <<>>
    /\ envResult = EnvNotCalled

IdleFlags ==
    /\ flags = DefaultFlags
    /\ flagsResult = NotCalled

IdleRemote ==
    /\ IdleFlags
    /\ IdleEnv
    /\ IdleDeploy

\* The state of the part of the model that a specification does not exercise.
IdleVerify ==
    /\ snap = [Stack |-> "", Manifest |-> ZeroManifest, Resources |-> <<>>]
    /\ verifyResult = Pending

IdleMagic ==
    /\ manifests = [x \in MagicNames |-> ZeroManifest]
    /\ magicPc = [x \in MagicNames |-> "start"]
    /\ magicFirst = [x \in MagicNames |-> ""]
    /\ magicSecond = [x \in MagicNames |-> ""]

NoSnapshot == [Stack |-> "", Manifest |-> ZeroManifest, Resources |-> [arr |-> 0, len |-> 0]]

IdleClone ==
    /\ mem = [heap |-> <<>>, arrays |-> <<>>]
    /\ snaps = [s |-> NoSnapshot, c |-> NoSnapshot]
    /\ mutated = "none"
    /\ nOps = 0

IdleApply ==
    /\ entry = "none"
    /\ kind = "none"
    /\ opts = [SkipPreview |-> FALSE, AutoApprove |-> FALSE, Experimental |-> FALSE,
               GeneratePlan |-> FALSE, Plan |-> 0]
    /\ plans = <<>>
    /\ pc = "done"
    /\ calls = <<>>
    /\ answers = <<>>
    /\ originalPlan = 0
    /\ previewPlan = 0
    /\ returned = [changes |-> "none", res |-> "none"]
    /\ previewChanges = "none"
    /\ eventsChannel = [state |-> "none", closes |-> 0, sent |-> 0]
    /\ collector = [pc |-> "none", e |-> [Type |-> "none", Resource |-> ""]]
    /\ events = <<>>
    /\ printed = <<>>

InitVerify ==
    /\ snap \in RichSnapshots \cup PlainSnapshots
    /\ verifyResult = Pending
    /\ IdleMagic
    /\ IdleClone
    /\ IdleExec
    /\ IdleApply
    /\ IdleRemote

CallVerifyIntegrity ==
    /\ verifyResult = Pending
    /\ verifyResult' = VerifyIntegrity(snap)
    /\ UNCHANGED <<snap, magicVars, cloneVars, applyVars, remoteVars, execVars>>

NextVerify == CallVerifyIntegrity

SpecVerify == InitVerify /\ [][NextVerify]_vars

(***************************************************************************)
(* NewMagic applied to two manifests: computed, stored in Magic, computed  *)
(* again.                                                                  *)
(***************************************************************************)
InitMagic ==
    /\ manifests \in [MagicNames -> Manifests]
    /\ magicPc = [x \in MagicNames |-> "start"]
    /\ magicFirst = [x \in MagicNames |-> ""]
    /\ magicSecond = [x \in MagicNames |-> ""]
    /\ IdleVerify
    /\ IdleClone
    /\ IdleExec
    /\ IdleApply
    /\ IdleRemote

\* magic := m.NewMagic()
ComputeMagic(x) ==
    /\ magicPc[x] = "start"
    /\ magicFirst' = [magicFirst EXCEPT ![x] = NewMagic(manifests[x])]
    /\ magicPc' = [magicPc EXCEPT ![x] = "computed"]
    /\ UNCHANGED <<manifests, magicSecond, verifyVars, cloneVars, applyVars, remoteVars, execVars>>

\* m.Magic = magic
StoreMagic(x) ==
    /\ magicPc[x] = "computed"
    /\ manifests' = [manifests EXCEPT ![x].Magic = magicFirst[x]]
    /\ magicPc' = [magicPc EXCEPT ![x] = "stored"]
    /\ UNCHANGED <<magicFirst, magicSecond, verifyVars, cloneVars, applyVars, remoteVars, execVars>>

\* m.NewMagic() again, on the manifest that now stores the first result
RecomputeMagic(x) ==
    /\ magicPc[x] = "stored"
    /\ magicSecond' = [magicSecond EXCEPT ![x] = NewMagic(manifests[x])]
    /\ magicPc' = [magicPc EXCEPT ![x] = "recomputed"]
    /\ UNCHANGED <<manifests, magicFirst, verifyVars, cloneVars, applyVars, remoteVars, execVars>>

NextMagic ==
    \E x \in MagicNames : ComputeMagic(x) \/ StoreMagic(x) \/ RecomputeMagic(x)

SpecMagic == InitMagic /\ [][NextMagic]_vars

(***************************************************************************)
(* Snapshot.Clone, and mutations of a snapshot and of its clone.           *)
(*                                                                         *)
(* Snapshot.Resources is a slice of pointers: a slice header (backing      *)
(* array, length) over an array of addresses of resource.State records on  *)
(* the heap.                                                               *)
(***************************************************************************)
\* []*resource.State{}: an empty slice without backing storage.
EmptySlice == [arr |-> 0, len |-> 0]

\* cap(sl)
Cap(m, sl) == IF sl.arr = 0 THEN 0 ELSE Len(m.arrays[sl.arr])

\* The capacity append gives a slice that has to grow by one element.
GrowCap(cap) == IF cap = 0 THEN 1 ELSE 2 * cap

\* append(sl, addr): in place when the capacity allows, otherwise into a new
\* backing array. Gives the memory and the slice header after the append.
GoAppend(m, sl, addr) ==
    IF sl.len < Cap(m, sl)
    THEN [mem |-> [m EXCEPT !.arrays[sl.arr][sl.len + 1] = addr],
          slice |-> [sl EXCEPT !.len = sl.len + 1]]
    ELSE LET grown == [k \in 1..GrowCap(Cap(m, sl)) |->
                          IF k <= sl.len THEN m.arrays[sl.arr][k]
                          ELSE IF k = sl.len + 1 THEN addr ELSE 0]
         IN  [mem |-> [m EXCEPT !.arrays = Append(m.arrays, grown)],
              slice |-> [arr |-> Len(m.arrays) + 1, len |-> sl.len + 1]]

\* A new resource.State record on the heap. Gives the memory and its address.
NewState(m, r) ==
    [mem |-> [m EXCEPT !.heap = Append(m.heap, r)], addr |-> Len(m.heap) + 1]

\* resource.State.Clone: a new record with the fields of the one at addr.
StateClone(m, addr) == NewState(m, m.heap[addr])

\* The loop of a Clone with a defect: the pointers are appended, not clones
\* of the records they point to.
RECURSIVE ShareResources(_, _, _, _)
ShareResources(m, src, k, dst) ==
    IF k > src.len THEN [mem |-> m, slice |-> dst]
    ELSE LET a == GoAppend(m, dst, m.arrays[src.arr][k])
         IN  ShareResources(a.mem, src, k + 1, a.slice)

\* for _, res := range snap.Resources { newSnap.Resources = append(newSnap.Resources, res.Clone()) }
\* from the k-th resource on
RECURSIVE CloneResources(_, _, _, _)
CloneResources(m, src, k, dst) ==
    IF k > src.len THEN [mem |-> m, slice |-> dst]
    ELSE LET c == StateClone(m, m.arrays[src.arr][k])
             a == GoAppend(c.mem, dst, c.addr)
         IN  CloneResources(a.mem, src, k + 1, a.slice)

\* Clone with a defect: the resource records are shared with the original.
CloneSharingStates(m, s) ==
    LET r == ShareResources(m, s.Resources, 1, EmptySlice)
    IN  [mem |-> r.mem,
         snap |-> [Stack |-> s.Stack, Manifest |-> ZeroManifest, Resources |-> r.slice]]

\* Snapshot.Clone. Gives the memory after the call and the new Snapshot;
\* newSnap.Manifest is never assigned and keeps its zero value.
Clone(m, s) ==
    LET r == CloneResources(m, s.Resources, 1, EmptySlice)
    IN  [mem |-> r.mem,
         snap |-> [Stack |-> s.Stack, Manifest |-> ZeroManifest, Resources |-> r.slice]]

\* What a reader of snapshot x sees: its stack, its manifest and the records
\* its resource slice points to, in order.
ViewResources(x) ==
    [k \in 1..snaps[x].Resources.len |-> mem.heap[mem.arrays[snaps[x].Resources.arr][k]]]

View(x) ==
    [Stack |-> snaps[x].Stack, Manifest |-> snaps[x].Manifest, Resources |-> ViewResources(x)]

\* The resource records the snapshots of this part of the model are made of:
\* a root and a child of it.
CloneStates ==
    {[URN |-> "a", Parent |-> NoURN, Dependencies |-> <<>>, Status |-> ResourceStatusCreated],
     [URN |-> "b", Parent |-> "a", Dependencies |-> <<"a">>, Status |-> ResourceStatusCreated]}

CloneManifests ==
    {ZeroManifest,
     [Time |-> 1, Magic |-> Sha256Hex("v1"), Version |-> "v1", Plugins |-> <<"aws">>]}

SnapNames == {"s", "c"}

\* s := NewSnapshot(stack, manifest, resources): the records lie on the heap
\* in list order and the slice fills its backing array.
InitClone ==
    /\ \E rs \in SeqsUpTo(CloneStates, MaxRes), mf \in CloneManifests :
          /\ mem = [heap |-> rs,
                    arrays |-> IF rs = <<>> THEN <<>> ELSE <<[k \in 1..Len(rs) |-> k]>>]
          /\ snaps = [s |-> [Stack |-> "dev", Manifest |-> mf,
                             Resources |-> IF rs = <<>> THEN EmptySlice
                                           ELSE [arr |-> 1, len |-> Len(rs)]],
                      c |-> NoSnapshot]
    /\ mutated = "none"
    /\ nOps = 0
    /\ IdleVerify
    /\ IdleMagic
    /\ IdleExec
    /\ IdleApply
    /\ IdleRemote

Cloned == snaps["c"] # NoSnapshot

\* c := s.Clone()
CallClone ==
    /\ ~Cloned
    /\ LET r == Clone(mem, snaps["s"])
       IN  /\ mem' = r.mem
           /\ snaps' = [snaps EXCEPT !["c"] = r.snap]
    /\ UNCHANGED <<mutated, nOps, verifyVars, magicVars, applyVars, remoteVars, execVars>>

\* x.Resources = append(x.Resources, &r)
AppendResource(x, r) ==
    /\ Cloned
    /\ nOps < MaxOps
    /\ LET n == NewState(mem, r)
           a == GoAppend(n.mem, snaps[x].Resources, n.addr)
       IN  /\ mem' = a.mem
           /\ snaps' = [snaps EXCEPT ![x].Resources = a.slice]
    /\ mutated' = x
    /\ nOps' = nOps + 1
    /\ UNCHANGED <<verifyVars, magicVars, applyVars, remoteVars, execVars>>

\* x.Resources = append(x.Resources[:i], x.Resources[i+1:]...), i 1-based:
\* the tail moves down within the backing array, whose last used slot keeps
\* its old content.
RemoveResource(x, i) ==
    /\ Cloned
    /\ nOps < MaxOps
    /\ i \in 1..snaps[x].Resources.len
    /\ LET sl == snaps[x].Resources
           old == mem.arrays[sl.arr]
       IN  /\ mem' = [mem EXCEPT !.arrays[sl.arr] =
                          [k \in 1..Len(old) |->
                              IF k >= i /\ k < sl.len THEN old[k + 1] ELSE old[k]]]
           /\ snaps' = [snaps EXCEPT ![x].Resources.len = sl.len - 1]
    /\ mutated' = x
    /\ nOps' = nOps + 1
    /\ UNCHANGED <<verifyVars, magicVars, applyVars, remoteVars, execVars>>

\* x.Resources[i] = &r
ReplaceResource(x, i, r) ==
    /\ Cloned
    /\ nOps < MaxOps
    /\ i \in 1..snaps[x].Resources.len
    /\ LET n == NewState(mem, r)
       IN  mem' = [n.mem EXCEPT !.arrays[snaps[x].Resources.arr][i] = n.addr]
    /\ mutated' = x
    /\ nOps' = nOps + 1
    /\ UNCHANGED <<snaps, verifyVars, magicVars, applyVars, remoteVars, execVars>>

\* x.Resources[i].Status = st
SetStatus(x, i, st) ==
    /\ Cloned
    /\ nOps < MaxOps
    /\ i \in 1..snaps[x].Resources.len
    /\ LET addr == mem.arrays[snaps[x].Resources.arr][i]
       IN  /\ mem.heap[addr].Status # st
           /\ mem' = [mem EXCEPT !.heap[addr].Status = st]
    /\ mutated' = x
    /\ nOps' = nOps + 1
    /\ UNCHANGED <<snaps, verifyVars, magicVars, applyVars, remoteVars, execVars>>

NextClone ==
    \/ CallClone
    \/ \E x \in SnapNames, r \in CloneStates : AppendResource(x, r)
    \/ \E x \in SnapNames, i \in 1..(MaxRes + MaxOps) : RemoveResource(x, i)
    \/ \E x \in SnapNames, i \in 1..(MaxRes + MaxOps), r \in CloneStates :
          ReplaceResource(x, i, r)
    \/ \E x \in SnapNames, i \in 1..(MaxRes + MaxOps),
          st \in {ResourceStatusCreating, ResourceStatusCreated} : SetStatus(x, i, st)

SpecClone == InitClone /\ [][NextClone]_vars

(***************************************************************************)
(* PreviewThenPrompt, confirmBeforeUpdating, PreviewThenPromptThenExecute  *)
(***************************************************************************)
PreviewUpdate == "preview"
UpdateUpdate == "update"
RefreshUpdate == "refresh"
DestroyUpdate == "destroy"
StackImportUpdate == "stack import"
ResourceImportUpdate == "import"

\* the keys of updateTextMap
UpdateKinds ==
    {PreviewUpdate, UpdateUpdate, RefreshUpdate, DestroyUpdate,
     StackImportUpdate, ResourceImportUpdate}

\* type response
yes == "yes"
no == "no"
details == "details"

\* survey.AskOne returned an error: there is no response
cancelled == "cancelled"

\* result.Result: nil, result.Bail(), result.FromError(err)
ResNil == "nil"
ResBail == "bail"
ResError == "error"
Results == {ResNil, ResBail, ResError}

\* confirmBeforeUpdating with a defect: the detailed summary is offered
\* whether or not there was a preview.
ChoicesAlwaysDetails(o) == {yes, no, details}

\* choices := []string{string(yes), string(no)}; if !opts.SkipPreview { choices = append(choices, string(details)) }
Choices(o) == IF ~o.SkipPreview THEN {yes, no, details} ELSE {yes, no}

\* confirmBeforeUpdating with a defect: a declined confirmation is returned
\* as an error.
ConfirmResultDeclineIsError(response) ==
    CASE response = cancelled -> ResError
      [] response = no -> ResError
      [] response = yes -> ResNil

\* What confirmBeforeUpdating returns for an outcome of the prompt that ends
\* its loop.
ConfirmResult(response) ==
    CASE response = cancelled -> ResError
      [] response = no -> ResBail
      [] response = yes -> ResNil

\* PreviewThenPrompt with a defect: a refresh is not confirmed.
SkipsPromptForRefresh(o, k) == o.AutoApprove \/ k = PreviewUpdate \/ k = RefreshUpdate

\* if op.Opts.AutoApprove || kind == apitype.PreviewUpdate { ... return plan, changes, nil }
SkipsPrompt(o, k) == o.AutoApprove \/ k = PreviewUpdate

\* updateTextMap[kind].previewText
previewText(k) ==
    CASE k = PreviewUpdate -> "update"
      [] k = UpdateUpdate -> "update"
      [] k = RefreshUpdate -> "refresh"
      [] k = DestroyUpdate -> "destroy"
      [] k = StackImportUpdate -> "stack import"
      [] k = ResourceImportUpdate -> "import"

\* The prompt of confirmBeforeUpdating, without its colours.
PromptText(k, o) ==
    <<"Do you want to perform this ", previewText(k),
      IF o.SkipPreview THEN " without a preview" ELSE "",
      "?",
      IF k = RefreshUpdate
      THEN "No resources will be modified as part of this refresh; just your stack's state will be."
      ELSE "">>

\* survey.Select{Message: prompt, Options: choices, Default: string(no)}
Select(k, o) ==
    [out |-> "prompt", text |-> PromptText(k, o), Options |-> Choices(o), Default |-> no]

\* Text written to the terminal.
Text(out, text) == [out |-> out, text |-> text, Options |-> {}, Default |-> ""]

InfoNoResources ==
    Text("info", <<"There are no resources in your stack (other than the stack resource).">>)

DeclinedText(k) == Text("declined", <<"confirmation declined, not proceeding with the ", k>>)

\* createDiff(kind, events, opts.Display), by its kind only
DiffText(k) == Text("diff", <<k>>)

\* engine.Event, by its type and the type of the resource it is about
ResourcePreEvent == "ResourcePreEvent"
ResourceOutputsEvent == "ResourceOutputsEvent"
SummaryEvent == "SummaryEvent"
DiagEvent == "DiagEvent"
StackType == "pulumi:pulumi:Stack"

EngineEvents ==
    {[Type |-> ResourcePreEvent, Resource |-> StackType],
     [Type |-> ResourcePreEvent, Resource |-> "aws:s3:Bucket"],
     [Type |-> ResourceOutputsEvent, Resource |-> "aws:s3:Bucket"],
     [Type |-> SummaryEvent, Resource |-> ""],
     [Type |-> DiagEvent, Resource |-> ""]}

NoEvent == [Type |-> "none", Resource |-> ""]

\* if e.Type == engine.ResourcePreEvent || e.Type == engine.ResourceOutputsEvent || e.Type == engine.SummaryEvent
Stored(e) == e.Type \in {ResourcePreEvent, ResourceOutputsEvent, SummaryEvent}

countResources(evs) ==
    Len(SelectSeq(evs, LAMBDA e : e.Type = ResourcePreEvent /\ e.Resource # StackType))

\* PreviewThenPrompt with a defect: the channel is left open.
CloseLeavesOpen(ch) == ch

\* close(eventsChannel)
Close(ch) == [ch EXCEPT !.state = "closed", !.closes = @ + 1]

\* deploy.Plan.Clone: a new plan object with the content of the one at addr.
PlanClone(ps, addr) == [plans |-> Append(ps, ps[addr]), addr |-> Len(ps) + 1]

\* PreviewThenPromptThenExecute with a defect: the real run keeps the plan
\* object that the preview was given instead of the clone taken before it.
RealPlanKeepsGiven(original, o, plan) ==
    IF original # 0 THEN o.Plan
    ELSE IF o.Experimental THEN plan
    ELSE 0

\* PreviewThenPromptThenExecute with a defect: the real run gets the plan of
\* the preview whether or not Engine.Experimental is set.
RealPlanAlwaysPreview(original, o, plan) ==
    IF original # 0 THEN original
    ELSE plan

\* The plan the real run gets, after a preview that returned plan:
\* if originalPlan != nil {...} else if op.Opts.Engine.Experimental {...} else {...}
RealPlan(original, o, plan) ==
    IF original # 0 THEN original
    ELSE IF o.Experimental THEN plan
    ELSE 0

\* One invocation of the applier: apply(ctx, kind, stack, op, opts, events)
Call(dryRun, o, ps) ==
    [DryRun |-> dryRun, Plan |-> o.Plan,
     Content |-> IF o.Plan = 0 THEN "nil" ELSE ps[o.Plan],
     GeneratePlan |-> o.GeneratePlan]

PlanContents == {"original", "checked", "generated"}

InitApply ==
    /\ entry \in {"PreviewThenPrompt", "PreviewThenPromptThenExecute"}
    /\ kind \in UpdateKinds
    /\ \E p \in {0, 1} :
          /\ opts \in [SkipPreview : BOOLEAN, AutoApprove : BOOLEAN, Experimental : BOOLEAN,
                       GeneratePlan : BOOLEAN, Plan : {p}]
          /\ plans = IF p = 0 THEN <<>> ELSE <<"original">>
    /\ pc = "start"
    /\ calls = <<>>
    /\ answers = <<>>
    /\ originalPlan = 0
    /\ previewPlan = 0
    /\ returned = [changes |-> "none", res |-> "none"]
    /\ previewChanges = "none"
    /\ eventsChannel = [state |-> "none", closes |-> 0, sent |-> 0]
    /\ collector = [pc |-> "none", e |-> NoEvent]
    /\ events = <<>>
    /\ printed = <<>>
    /\ IdleVerify
    /\ IdleMagic
    /\ IdleClone
    /\ IdleExec
    /\ IdleRemote

\* The function returns changes and res.
Return(changes, res) ==
    /\ pc' = "done"
    /\ returned' = [changes |-> changes, res |-> res]

\* PreviewThenPromptThenExecute from "Perform the change (!DryRun)" to the
\* call of the applier; o is op.Opts as the function has it by then.
CallApplierForReal(o, ps) ==
    /\ opts' = [o EXCEPT !.GeneratePlan = FALSE]
    /\ calls' = Append(calls, Call(FALSE, [o EXCEPT !.GeneratePlan = FALSE], ps))
    /\ pc' = "real"
    /\ UNCHANGED returned

\* PreviewThenPrompt returned (plan, changes, nil) to its caller.
PreviewThenPromptReturnedNil(k, plan, ps) ==
    IF entry = "PreviewThenPrompt" \/ k = PreviewUpdate
    THEN Return("preview", ResNil) /\ UNCHANGED <<opts, calls>>
    ELSE CallApplierForReal([opts EXCEPT !.Plan = RealPlan(originalPlan, opts, plan)], ps)

\* PreviewThenPrompt closes the channel and returns (plan, changes, res).
PreviewThenPromptReturns(k, plan, ps, res) ==
    /\ eventsChannel' = Close(eventsChannel)
    /\ IF res # ResNil
       THEN Return("preview", res) /\ UNCHANGED <<opts, calls>>
       ELSE PreviewThenPromptReturnedNil(k, plan, ps)

\* The call up to its first invocation of the applier; PreviewThenPrompt makes
\* the channel and starts the goroutine that ranges over it.
Start ==
    /\ pc = "start"
    /\ IF entry = "PreviewThenPromptThenExecute" /\ opts.SkipPreview
       THEN /\ CallApplierForReal(opts, plans)
            /\ UNCHANGED <<plans, originalPlan, eventsChannel, collector>>
       ELSE /\ IF entry = "PreviewThenPromptThenExecute" /\ opts.Plan # 0
               THEN LET c == PlanClone(plans, opts.Plan)
                    IN  plans' = c.plans /\ originalPlan' = c.addr
               ELSE UNCHANGED <<plans, originalPlan>>
            /\ eventsChannel' = [state |-> "open", closes |-> 0, sent |-> 0]
            /\ collector' = [pc |-> "ranging", e |-> NoEvent]
            /\ calls' = Append(calls, Call(TRUE, opts, plans))
            /\ pc' = "preview"
            /\ UNCHANGED <<opts, returned>>
    /\ UNCHANGED <<entry, kind, answers, previewPlan, previewChanges, events, printed,
                   verifyVars, magicVars, cloneVars, remoteVars, execVars>>

\* The dry run of the applier sends an event on the channel, which has no
\* buffer: the goroutine receives it in the same step.
SendEvent(e) ==
    /\ pc = "preview"
    /\ eventsChannel.state = "open"
    /\ eventsChannel.sent < MaxEvents
    /\ collector.pc = "ranging"
    /\ eventsChannel' = [eventsChannel EXCEPT !.sent = @ + 1]
    /\ collector' = [pc |-> "received", e |-> e]
    /\ UNCHANGED <<entry, kind, opts, plans, pc, calls, answers, originalPlan, previewPlan,
                   returned, previewChanges, events, printed,
                   verifyVars, magicVars, cloneVars, remoteVars, execVars>>

\* The body of the goroutine's loop: events = append(events, e) for the
\* events it stores.
CollectorAppends ==
    /\ collector.pc = "received"
    /\ events' = IF Stored(collector.e) THEN Append(events, collector.e) ELSE events
    /\ collector' = [pc |-> "ranging", e |-> NoEvent]
    /\ UNCHANGED <<entry, kind, opts, plans, pc, calls, answers, originalPlan, previewPlan,
                   returned, previewChanges, eventsChannel, printed,
                   verifyVars, magicVars, cloneVars, remoteVars, execVars>>

\* for e := range eventsChannel ends when the channel is closed.
CollectorExits ==
    /\ collector.pc = "ranging"
    /\ eventsChannel.state = "closed"
    /\ collector' = [pc |-> "done", e |-> NoEvent]
    /\ UNCHANGED <<entry, kind, opts, plans, pc, calls, answers, originalPlan, previewPlan,
                   returned, previewChanges, eventsChannel, events, printed,
                   verifyVars, magicVars, cloneVars, remoteVars, execVars>>

\* The dry run of the applier returns (plan, changes, res) to PreviewThenPrompt
\* called with kind k; it may have changed the plan object it was given and
\* may return a plan it generated. Everything but what is printed.
PreviewReturnsFlow(k, res, checksPlan, generates, hasChanges) ==
    /\ pc = "preview"
    /\ LET checked == IF checksPlan /\ opts.Plan # 0
                      THEN [plans EXCEPT ![opts.Plan] = "checked"]
                      ELSE plans
           after == IF generates THEN Append(checked, "generated") ELSE checked
           plan == IF generates THEN Len(after) ELSE 0
       IN  /\ plans' = after
           /\ previewPlan' = plan
           /\ previewChanges' = IF hasChanges THEN "changes" ELSE "no changes"
           /\ IF res # ResNil \/ SkipsPrompt(opts, k)
              THEN PreviewThenPromptReturns(k, plan, after, res)
              ELSE pc' = "prompt" /\ UNCHANGED <<opts, calls, returned, eventsChannel>>
    /\ UNCHANGED <<entry, kind, answers, originalPlan, collector, events,
                   verifyVars, magicVars, cloneVars, remoteVars, execVars>>

\* What PreviewThenPrompt called with kind k prints before it asks.
PreviewReturnsPrints(k, res) ==
    printed' = IF /\ res = ResNil
                  /\ ~SkipsPrompt(opts, k)
                  /\ k = UpdateUpdate
                  /\ countResources(events) = 0
               THEN Append(printed, InfoNoResources)
               ELSE printed

PreviewReturns(res, checksPlan, generates, hasChanges) ==
    /\ PreviewReturnsFlow(kind, res, checksPlan, generates, hasChanges)
    /\ PreviewReturnsPrints(kind, res)

\* One round of the loop of confirmBeforeUpdating called with kind k: the
\* prompt is shown and answered (or fails); after details the loop goes on.
\* Everything but what is printed.
AnswerFlow(k, response) ==
    /\ pc = "prompt"
    /\ response \in Choices(opts) \cup {cancelled}
    /\ answers' = Append(answers, response)
    /\ IF response = details
       THEN /\ Len(SelectSeq(answers, LAMBDA a : a = details)) < MaxDetails
            /\ UNCHANGED <<pc, opts, calls, returned, eventsChannel>>
       ELSE PreviewThenPromptReturns(k, previewPlan, plans, ConfirmResult(response))
    /\ UNCHANGED <<entry, kind, plans, originalPlan, previewPlan, previewChanges,
                   collector, events, verifyVars, magicVars, cloneVars, remoteVars, execVars>>

\* What one round of the loop of confirmBeforeUpdating prints.
AnswerPrints(k, response) ==
    printed' = CASE response = no -> printed \o <<Select(k, opts), DeclinedText(k)>>
                 [] response = details -> printed \o <<Select(k, opts), DiffText(k)>>
                 [] OTHER -> Append(printed, Select(k, opts))

Answer(response) ==
    /\ AnswerFlow(kind, response)
    /\ AnswerPrints(kind, response)

\* The real run of the applier returns (_, changes, res).
RealReturns(res) ==
    /\ pc = "real"
    /\ Return("update", res)
    /\ UNCHANGED <<entry, kind, opts, plans, calls, answers, originalPlan, previewPlan,
                   previewChanges, eventsChannel, collector, events, printed,
                   verifyVars, magicVars, cloneVars, remoteVars, execVars>>

NextApply ==
    \/ Start
    \/ \E e \in EngineEvents : SendEvent(e)
    \/ CollectorAppends
    \/ CollectorExits
    \/ \E res \in Results, checksPlan \in BOOLEAN, generates \in BOOLEAN, hasChanges \in BOOLEAN :
          PreviewReturns(res, checksPlan, generates, hasChanges)
    \/ \E response \in {yes, no, details, cancelled} : Answer(response)
    \/ \E res \in Results : RealReturns(res)

SpecApply == InitApply /\ [][NextApply]_vars

\* The calls in which no plan is supplied, generated or reused: the plan
\* options have no part in what happens to the events channel.
InitApplyNoPlan ==
    /\ InitApply
    /\ opts.Plan = 0
    /\ ~opts.Experimental
    /\ ~opts.GeneratePlan

\* The goroutine is scheduled: a step of it that stays possible is taken.
SpecApplyFair ==
    /\ InitApplyNoPlan
    /\ [][NextApply]_vars
    /\ WF_vars(CollectorAppends)
    /\ WF_vars(CollectorExits)

\* The arguments of a call: at most MaxSet of the flags are given.
InitFlags ==
    /\ \E given \in SubsetsUpTo(FlagParams, MaxSet),
          provider \in SetValues("secretsProvider"),
          pointer \in UnsetValues("targets") :
          flags = [name \in FlagParams |->
                      IF name \in given
                      THEN IF name = "secretsProvider" THEN provider
                           ELSE CHOOSE v \in SetValues(name) : TRUE
                      ELSE IF name = "targets" THEN pointer
                           ELSE CHOOSE v \in UnsetValues(name) : TRUE]
    /\ flagsResult = NotCalled
    /\ IdleEnv
    /\ IdleDeploy
    /\ IdleVerify
    /\ IdleMagic
    /\ IdleClone
    /\ IdleExec
    /\ IdleApply

CallValidate ==
    /\ flagsResult = NotCalled
    /\ flagsResult' = validateUnsupportedRemoteFlags(flags)
    /\ UNCHANGED <<flags, parseEnvVars, deployVars, verifyVars, magicVars, cloneVars, applyVars, execVars>>

NextFlags == CallValidate

SpecFlags == InitFlags /\ [][NextFlags]_vars

(***************************************************************************)
(* parseEnv applied to the strings of the model.                           *)
(***************************************************************************)
InitEnv ==
    /\ envInput \in Strings(MaxEnvLen)
    /\ envResult = EnvNotCalled
    /\ IdleFlags
    /\ IdleDeploy
    /\ IdleVerify
    /\ IdleMagic
    /\ IdleClone
    /\ IdleExec
    /\ IdleApply

CallParseEnv ==
    /\ envResult = EnvNotCalled
    /\ envResult' = parseEnv(envInput)
    /\ UNCHANGED <<envInput, flags, flagsResult, deployVars,
                   verifyVars, magicVars, cloneVars, applyVars, execVars>>

NextEnv == CallParseEnv

SpecEnv == InitEnv /\ [][NextEnv]_vars

(***************************************************************************)
(* runDeployment applied to the arguments of the model.                    *)
(***************************************************************************)
\* The pairs of lists of entries of at most n entries taken together.
EnvLists(n) ==
    {p \in SeqsUpTo(EnvEntries, n) \X SeqsUpTo(EnvEntries, n) : Len(p[1]) + Len(p[2]) <= n}

InitDeploy ==
    /\ \E lists \in EnvLists(MaxEnv) :
          deployArgs \in
              [backend : {"error", "filestate", "httpstate"},
               stackOk : BOOLEAN,
               operation : {"update"},
               url : {"", "https://example.com/repo.git"},
               gitBranch : {"", "refs/heads/main"},
               gitCommit : {"", "0a1b2c3"},
               gitRepoDir : {"infra"},
               envVars : {lists[1]},
               secretEnvVars : {lists[2]},
               preRunCommands : {<<"make">>},
               gitAuthAccessToken : {"", "token"},
               gitAuthSSHPrivateKey : {"", "key"},
               gitAuthSSHPrivateKeyPath : {"", "id_rsa"},
               gitAuthPassword : {"", "password"},
               gitAuthUsername : {"", "user"},
               keyFileReadable : BOOLEAN]
    /\ deployArgs.gitAuthSSHPrivateKeyPath = "" => deployArgs.keyFileReadable
    /\ deployCalls = <<>>
    /\ deployResult = "not called"
    /\ IdleFlags
    /\ IdleEnv
    /\ IdleVerify
    /\ IdleMagic
    /\ IdleClone
    /\ IdleExec
    /\ IdleApply

CallRunDeployment(runErr) ==
    /\ deployResult = "not called"
    /\ LET r == runDeployment(deployArgs, runErr)
       IN  /\ deployResult' = r.result
           /\ deployCalls' = r.calls
    /\ UNCHANGED <<deployArgs, flags, flagsResult, parseEnvVars,
                   verifyVars, magicVars, cloneVars, applyVars, execVars>>

NextDeploy == \E runErr \in BOOLEAN : CallRunDeployment(runErr)

SpecDeploy == InitDeploy /\ [][NextDeploy]_vars

(***************************************************************************)
(* Runs of the step executor.                                              *)
(***************************************************************************)
InitExec ==
    /\ execPlan \in [goal : Graphs, op : {"create", "delete"}, dryRun : BOOLEAN,
                     parallel : 1..MaxInFlight]
    /\ stepStatus = [u \in URNsOf(execPlan.goal) |-> StepPending]
    /\ outstanding = Unresolved(execPlan)
    /\ cancelRequested = FALSE
    /\ workingSnap = IF execPlan.op = "delete" THEN execPlan.goal ELSE <<>>
    /\ persisted = [saves |-> 0, Resources |-> workingSnap]
    /\ execResult = "running"
    /\ IdleVerify
    /\ IdleMagic
    /\ IdleClone
    /\ IdleApply
    /\ IdleRemote

OtherThanExec == <<verifyVars, magicVars, cloneVars, applyVars, remoteVars>>

\* Pending -> Running.
StartStep(urn) ==
    /\ MayStart(urn)
    /\ stepStatus' = [stepStatus EXCEPT ![urn] = StepRunning]
    /\ UNCHANGED <<execPlan, outstanding, cancelRequested, workingSnap, persisted, execResult,
                   OtherThanExec>>

\* Running -> Succeeded: the counters of the steps that wait for this one go
\* down, the working snapshot takes the step's mutation and is saved.
\* Running -> Failed: the steps that wait for this one are skipped.
FinishStep(urn, ok) ==
    /\ execResult = "running"
    /\ stepStatus[urn] = StepRunning
    /\ IF ok
       THEN /\ stepStatus' = [stepStatus EXCEPT ![urn] = StepSucceeded]
            /\ outstanding' =
                   [u \in DOMAIN outstanding |->
                       IF urn \in WaitsFor(execPlan, u)
                       THEN outstanding[u] - 1
                       ELSE outstanding[u]]
            /\ workingSnap' = Mutate(workingSnap, execPlan, urn)
            /\ persisted' = Save(persisted, execPlan, workingSnap')
       ELSE /\ stepStatus' =
                   [u \in DOMAIN stepStatus |->
                       IF u = urn THEN StepFailed
                       ELSE IF u \in Downstream(execPlan, {urn}) THEN StepSkipped
                       ELSE stepStatus[u]]
            /\ UNCHANGED <<outstanding, workingSnap, persisted>>
    /\ UNCHANGED <<execPlan, cancelRequested, execResult, OtherThanExec>>

\* The cancellation signal.
Cancel ==
    /\ execResult = "running"
    /\ ~cancelRequested
    /\ cancelRequested' = TRUE
    /\ UNCHANGED <<execPlan, stepStatus, outstanding, workingSnap, persisted, execResult,
                   OtherThanExec>>

\* The run ends when nothing is in flight and nothing more is to be issued;
\* it persists the snapshot it has and reports how it ended.
FinishRun ==
    /\ execResult = "running"
    /\ \A u \in DOMAIN stepStatus : stepStatus[u] # StepRunning
    /\ cancelRequested \/ \A u \in DOMAIN stepStatus : stepStatus[u] # StepPending
    /\ execResult' = RunResult
    /\ persisted' = Save(persisted, execPlan, workingSnap)
    /\ UNCHANGED <<execPlan, stepStatus, outstanding, cancelRequested, workingSnap, OtherThanExec>>

NextExec ==
    \/ \E urn \in StepURNs : StartStep(urn)
    \/ \E urn \in StepURNs, ok \in BOOLEAN : FinishStep(urn, ok)
    \/ Cancel
    \/ FinishRun

SpecExec == InitExec /\ [][NextExec]_vars

\* A provider call in flight returns, and a run with nothing left to do ends.
SpecExecFair ==
    /\ InitExec
    /\ [][NextExec]_vars
    /\ \A urn \in StepURNs : WF_vars(\E ok \in BOOLEAN : FinishStep(urn, ok))
    /\ WF_vars(FinishRun)

(***************************************************************************)
(* Properties of VerifyIntegrity.                                          *)
(***************************************************************************)
Verified == verifyResult # Pending

Accepted == verifyResult = NilError

Resources == snap.Resources

\* the URNs of the resources at an index strictly lower than i
EarlierURNs(rs, i) == {rs[j].URN : j \in 1..(i - 1)}

ParentEarlier(rs, i) == rs[i].Parent # NoURN => rs[i].Parent \in EarlierURNs(rs, i)

DependencyEarlier(rs, i, k) == rs[i].Dependencies[k] \in EarlierURNs(rs, i)

LiveIndexes(rs, u) == {i \in 1..Len(rs) : rs[i].URN = u /\ Live(rs[i].Status)}

AtMostOneLive(rs) == \A u \in URNs : Cardinality(LiveIndexes(rs, u)) <= 1

NoBadStatus(rs) ==
    \A i \in 1..Len(rs) :
        rs[i].Status \notin {ResourceStatusUnspecified, ResourceStatusDeleted}

ReferencesEarlier(rs) ==
    \A i \in 1..Len(rs) :
        /\ ParentEarlier(rs, i)
        /\ \A k \in 1..Len(rs[i].Dependencies) : DependencyEarlier(rs, i, k)

MagicMatches == snap.Manifest.Magic = NewMagic(snap.Manifest)

\* C2: in a snapshot on which VerifyIntegrity returns nil at most one resource
\* per URN is live; and a snapshot that meets the other invariants is accepted
\* whenever no URN has more than one live resource, however many resources
\* share the URN and in whatever order.
C2_AtMostOneLivePerURN ==
    Verified =>
        /\ Accepted => AtMostOneLive(Resources)
        /\ (/\ MagicMatches
            /\ ReferencesEarlier(Resources)
            /\ NoBadStatus(Resources)
            /\ AtMostOneLive(Resources)) => Accepted

\* An accepted snapshot with three resources of one URN, the live one not last.
C2_Witness ==
    /\ Accepted
    /\ Len(Resources) = 3
    /\ \A i \in 1..3 : Resources[i].URN = Resources[1].URN
    /\ Live(Resources[2].Status)

\* C3: VerifyIntegrity returns an error for every snapshot with a resource,
\* at any position, whose status is Unspecified or Deleted.
C3_BadStatusRejected ==
    (Verified /\ ~NoBadStatus(Resources)) => ~Accepted

\* A snapshot whose only defect is the Deleted status of its last resource.
C3_Witness ==
    /\ Verified
    /\ Len(Resources) = 3
    /\ Resources[3].Status = ResourceStatusDeleted
    /\ NoBadStatus(SubSeq(Resources, 1, 2))
    /\ verifyResult.kind = "status deleted"

\* C4: VerifyIntegrity returns the magic cookie error whenever Manifest.Magic
\* differs from Manifest.NewMagic(), whatever the resources are (the check
\* comes first); with an empty Version the check passes only for an empty Magic.
C4_MagicCheckedFirst ==
    Verified =>
        /\ ~MagicMatches => verifyResult = Errorf("magic cookie mismatch", "", "")
        /\ (snap.Manifest.Version = "" /\ verifyResult.kind # "magic cookie mismatch")
               => snap.Manifest.Magic = ""

\* A magic mismatch reported under an empty Version for a snapshot whose
\* first resource has a bad status.
C4_Witness ==
    /\ verifyResult.kind = "magic cookie mismatch"
    /\ snap.Manifest.Version = ""
    /\ Len(Resources) >= 1
    /\ Resources[1].Status = ResourceStatusDeleted

\* The violations of a snapshot, each with its place in the scan:
\* <<index of the resource (0 for the manifest), rank of the check within the
\* resource, index of the dependency, error>>.
ReferenceError(rs, i, u, after, missing) ==
    IF \E j \in (i + 1)..Len(rs) : rs[j].URN = u
    THEN Errorf(after, rs[i].URN, u)
    ELSE Errorf(missing, rs[i].URN, u)

Violations(s) ==
    LET rs == s.Resources
    IN  {<<0, 0, 0, Errorf("magic cookie mismatch", "", "")>> :
            x \in {m \in {s.Manifest} : m.Magic # NewMagic(m)}}
        \cup {<<i, 1, 0, ReferenceError(rs, i, rs[i].Parent,
                                        "parent comes after", "missing parent")>> :
                i \in {j \in 1..Len(rs) : ~ParentEarlier(rs, j)}}
        \cup UNION {{<<i, 2, k, ReferenceError(rs, i, rs[i].Dependencies[k],
                                   "dependency comes after", "dependency missing")>> :
                        k \in {d \in 1..Len(rs[i].Dependencies) : ~DependencyEarlier(rs, i, d)}} :
                    i \in 1..Len(rs)}
        \cup {<<i, 3, 0, Errorf("status unspecified", rs[i].URN, "")>> :
                i \in {j \in 1..Len(rs) : rs[j].Status = ResourceStatusUnspecified}}
        \cup {<<i, 4, 0, Errorf("status deleted", rs[i].URN, "")>> :
                i \in {j \in 1..Len(rs) : rs[j].Status = ResourceStatusDeleted}}
        \cup {<<i, 5, 0, Errorf("duplicate live", rs[i].URN, rs[i].Status)>> :
                i \in {j \in 1..Len(rs) :
                         /\ Live(rs[j].Status)
                         /\ \E e \in 1..(j - 1) : rs[e].URN = rs[j].URN /\ Live(rs[e].Status)}}

\* v comes no later than w in the scan
ScanOrder(v, w) ==
    \/ v[1] < w[1]
    \/ v[1] = w[1] /\ v[2] < w[2]
    \/ v[1] = w[1] /\ v[2] = w[2] /\ v[3] <= w[3]

\* C5: VerifyIntegrity returns one error, that of the first violation in its
\* scan (the magic mismatch, then the resources in order, and for one resource
\* parent, dependencies in order, Unspecified, Deleted, duplicate live), and
\* nil when there is no violation.
C5_FirstViolationReturned ==
    Verified =>
        LET all == Violations(snap)
        IN  IF all = {} THEN Accepted
            ELSE \E v \in all :
                    /\ \A w \in all : ScanOrder(v, w)
                    /\ verifyResult = v[4]

\* A dependency error returned for a resource that also has a bad status,
\* in a snapshot with a violation at a later resource too.
C5_Witness ==
    /\ verifyResult.kind \in {"dependency missing", "dependency comes after"}
    /\ \E v \in Violations(snap), w \in Violations(snap) :
          /\ v[4] = verifyResult
          /\ w[1] = v[1] /\ w[2] = 4
    /\ \E w \in Violations(snap) : w[1] = 2

C6_CloneIndependent ==
    [][Cloned =>
          /\ mutated' = "s" => ViewResources("c")' = ViewResources("c")
          /\ mutated' = "c" => ViewResources("s")' = ViewResources("s")]_vars

\* Both s and c were mutated after the clone and now differ.
C6_Witness ==
    /\ Cloned
    /\ nOps >= 2
    /\ mutated = "c"
    /\ snaps["s"].Resources.len >= 1
    /\ snaps["c"].Resources.len >= 1
    /\ ViewResources("s")[1] # ViewResources("c")[1]

\* C7: Clone() returns a copy: right after c := s.Clone() the stack, the
\* manifest (Time, Magic, Version, Plugins) and the ordered resource
\* sequence of c equal those of s.
C7_CloneEqualsOriginal ==
    (Cloned /\ nOps = 0) => View("c") = View("s")

\* What Clone does copy: the stack and the resource sequence.
CloneCopiesStackAndResources ==
    (Cloned /\ nOps = 0) =>
        /\ View("c").Stack = View("s").Stack
        /\ View("c").Resources = View("s").Resources

(***************************************************************************)
(* Properties of PreviewThenPromptThenExecute.                             *)
(***************************************************************************)
RealCalls == {i \in 1..Len(calls) : ~calls[i].DryRun}

Declined == \E i \in 1..Len(answers) : answers[i] = no

\* C9: in PreviewThenPromptThenExecute, unless AutoApprove is set or the kind
\* is PreviewUpdate, an invocation of the applier with DryRun=false comes
\* only after a confirmation prompt that was answered yes, for every value
\* of the other options (SkipPreview included).
C9_RealRunConfirmed ==
    (/\ entry = "PreviewThenPromptThenExecute"
     /\ ~opts.AutoApprove
     /\ kind # PreviewUpdate
     /\ RealCalls # {})
        => (answers # <<>> /\ answers[Len(answers)] = yes)

\* C10: when the user answers no at the prompt, PreviewThenPromptThenExecute
\* returns a bail result, not an error, and never invokes the applier with
\* DryRun=false.
C10_DeclineBails ==
    (entry = "PreviewThenPromptThenExecute" /\ Declined) =>
        /\ pc = "done"
        /\ returned.res = ResBail
        /\ RealCalls = {}

\* The user looked at the details and then answered no.
C10_Witness ==
    /\ entry = "PreviewThenPromptThenExecute"
    /\ answers = <<details, no>>
    /\ Len(calls) = 1

\* C11: for an operation of kind PreviewUpdate, PreviewThenPromptThenExecute
\* never invokes the applier with DryRun=false, for every combination of
\* SkipPreview, AutoApprove and the plan options.
C11_PreviewNeverReal ==
    (entry = "PreviewThenPromptThenExecute" /\ kind = PreviewUpdate) => RealCalls = {}

\* With the preview not skipped, a PreviewUpdate never runs for real.
PreviewNeverRealUnlessSkipped ==
    (/\ entry = "PreviewThenPromptThenExecute"
     /\ kind = PreviewUpdate
     /\ ~opts.SkipPreview)
        => RealCalls = {}

\* The caller supplied a plan in op.Opts.Engine.Plan: the first invocation of
\* the applier gets op.Opts as the caller passed it.
SuppliedPlan == calls # <<>> /\ calls[1].Plan # 0

\* The first invocation of the applier was the preview.
Previewed == calls # <<>> /\ calls[1].DryRun

\* C12: when a plan is supplied in op.Opts.Engine.Plan and the preview is not
\* skipped, the plan given to the applier for the real run is another object
\* than the one the preview was given, and its content is the content the
\* supplied plan had before the preview started, whatever the preview did to
\* the plan it was given.
C12_RealRunGetsOriginalPlan ==
    (entry = "PreviewThenPromptThenExecute" /\ Previewed /\ SuppliedPlan) =>
        \A i \in RealCalls :
            /\ calls[i].Plan # 0
            /\ calls[i].Plan # calls[1].Plan
            /\ calls[i].Content = calls[1].Content
            /\ plans[calls[i].Plan] = calls[1].Content

\* The preview changed the plan it was given and generated one of its own,
\* and the real run was started.
C12_Witness ==
    /\ entry = "PreviewThenPromptThenExecute"
    /\ Previewed
    /\ SuppliedPlan
    /\ RealCalls # {}
    /\ plans[calls[1].Plan] = "checked"
    /\ previewPlan # 0

\* C13 as stated: unless the caller supplied a plan, the applier is invoked
\* for the real run with Engine.Plan unset.
C13_RealRunRecomputes ==
    (entry = "PreviewThenPromptThenExecute" /\ calls # <<>> /\ ~SuppliedPlan) =>
        \A i \in RealCalls : calls[i].Plan = 0

\* C13: unless the caller supplied a plan or Engine.Experimental is set, the
\* applier is invoked for the real run with Engine.Plan unset; with
\* Engine.Experimental set and no plan supplied, the real run that follows a
\* preview gets the plan the preview returned (which may be nil).
C13_RealRunRecomputesUnlessExperimental ==
    (entry = "PreviewThenPromptThenExecute" /\ calls # <<>> /\ ~SuppliedPlan) =>
        \A i \in RealCalls :
            calls[i].Plan = IF opts.Experimental /\ Previewed THEN previewPlan ELSE 0

\* The preview generated a plan, Engine.Experimental is not set, and the real
\* run was started.
C13_Witness ==
    /\ entry = "PreviewThenPromptThenExecute"
    /\ Previewed
    /\ ~SuppliedPlan
    /\ ~opts.Experimental
    /\ previewPlan # 0
    /\ RealCalls # {}

\* The kinds that are neither an update nor a preview.
OtherKinds == UpdateKinds \ {UpdateUpdate, PreviewUpdate}

\* The step taken is, but for what it prints, the step the code takes when
\* called with kind k on the same options, applier results and answer.
SameFlowAs(k) ==
    /\ \A res \in Results, checksPlan \in BOOLEAN, generates \in BOOLEAN, hasChanges \in BOOLEAN :
          PreviewReturns(res, checksPlan, generates, hasChanges)
              => PreviewReturnsFlow(k, res, checksPlan, generates, hasChanges)
    /\ \A response \in {yes, no, details, cancelled} :
          Answer(response) => AnswerFlow(k, response)

\* The applier results and answers the code accepts next are those it
\* accepts when called with kind k.
SameEnabledAs(k) ==
    /\ \A res \in Results, checksPlan \in BOOLEAN, generates \in BOOLEAN, hasChanges \in BOOLEAN :
          (ENABLED PreviewReturnsFlow(kind, res, checksPlan, generates, hasChanges))
              <=> (ENABLED PreviewReturnsFlow(k, res, checksPlan, generates, hasChanges))
    /\ \A response \in {yes, no, details, cancelled} :
          (ENABLED AnswerFlow(kind, response)) <=> (ENABLED AnswerFlow(k, response))

OtherKindStepsAsUpdate == (kind \in OtherKinds) => SameFlowAs(UpdateUpdate)

\* C14: for the kinds other than UpdateUpdate and PreviewUpdate,
\* PreviewThenPromptThenExecute and PreviewThenPrompt take, on the same
\* options, applier results and answers, the steps they take for UpdateUpdate:
\* the same invocations of the applier with the same DryRun flags and plans,
\* the prompt shown in the same cases, the same result returned; only what is
\* printed may differ.
C14_SameControlFlow ==
    /\ [](kind \in OtherKinds => SameEnabledAs(UpdateUpdate))
    /\ [][OtherKindStepsAsUpdate]_vars

\* A refresh was previewed, confirmed with its own prompt text and run.
C14_Witness ==
    /\ entry = "PreviewThenPromptThenExecute"
    /\ kind = RefreshUpdate
    /\ answers = <<yes>>
    /\ RealCalls # {}
    /\ pc = "done"
    /\ printed = <<Select(RefreshUpdate, opts)>>
    /\ printed # <<Select(UpdateUpdate, opts)>>

(***************************************************************************)
(* Properties of confirmBeforeUpdating and PreviewThenPrompt.              *)
(***************************************************************************)
\* The prompts shown so far, in order.
Prompts == SelectSeq(printed, LAMBDA t : t.out = "prompt")

\* confirmBeforeUpdating has returned to PreviewThenPrompt.
Confirmed == answers # <<>> /\ answers[Len(answers)] # details

\* C15: confirmBeforeUpdating returns nil if and only if the user answered
\* yes; on no it returns a bail result, on a failure of the prompt an error
\* result; on details it prints the diff and asks again without returning;
\* every prompt offers yes and no, offers details exactly when SkipPreview is
\* false, and has no as its default.
C15_ConfirmBeforeUpdating ==
    (entry = "PreviewThenPrompt" /\ answers # <<>>) =>
        LET last == answers[Len(answers)]
        IN  /\ \A i \in 1..(Len(answers) - 1) : answers[i] = details
            /\ (pc = "done") <=> (last # details)
            /\ (last = details) => (pc = "prompt" /\ printed[Len(printed)].out = "diff")
            /\ (pc = "done") => /\ (returned.res = ResNil) <=> (last = yes)
                                /\ (returned.res = ResBail) <=> (last = no)
                                /\ (returned.res = ResError) <=> (last = cancelled)
            /\ Len(Prompts) = Len(answers)
            /\ \A i \in 1..Len(Prompts) :
                  /\ Prompts[i].Default = no
                  /\ {yes, no} \subseteq Prompts[i].Options
                  /\ Prompts[i].Options \subseteq {yes, no, details}
                  /\ (details \in Prompts[i].Options) <=> ~opts.SkipPreview
            /\ Len(SelectSeq(printed, LAMBDA t : t.out = "diff"))
                  = Len(SelectSeq(answers, LAMBDA r : r = details))

\* The user asked for the details, was asked again and answered yes.
C15_Witness ==
    /\ entry = "PreviewThenPrompt"
    /\ answers = <<details, yes>>
    /\ pc = "done"
    /\ returned.res = ResNil
    /\ Len(Prompts) = 2

\* A prompt without the details choice was answered.
PromptWithoutDetails ==
    /\ entry = "PreviewThenPrompt"
    /\ opts.SkipPreview
    /\ Len(Prompts) = 1
    /\ Prompts[1].Options = {yes, no}
    /\ pc = "done"

\* PreviewThenPrompt was called and has returned.
PreviewThenPromptReturned == eventsChannel.state # "none" /\ pc \in {"real", "done"}

ChannelClosedOnReturn ==
    /\ eventsChannel.closes <= 1
    /\ (eventsChannel.closes = 1) <=> PreviewThenPromptReturned
    /\ (eventsChannel.closes = 1) <=> (eventsChannel.state = "closed")
    /\ (eventsChannel.state = "closed") => (calls # <<>> /\ calls[1].DryRun /\ pc # "preview")

\* C16: on every return path of PreviewThenPrompt the events channel is
\* closed exactly once, only after the dry run of the applier has returned,
\* and the goroutine that ranges over the channel then terminates.
C16_ChannelClosedOnce ==
    /\ []ChannelClosedOnReturn
    /\ (eventsChannel.state = "closed") ~> (collector.pc = "done")

\* The prompt was answered, the channel closed, and the goroutine, which had
\* stored an event, has ended.
C16_Witness ==
    /\ answers # <<>>
    /\ pc = "done"
    /\ eventsChannel.closes = 1
    /\ Len(events) = 1
    /\ collector.pc = "done"

(***************************************************************************)
(* The invariants listed in the comment of VerifyIntegrity.                *)
(***************************************************************************)
\* C17: in every snapshot on which VerifyIntegrity returns nil, dependents
\* come before their dependencies: a resource named as a dependency lies at
\* a higher index than the resource that names it.
C17_DependentsBeforeDependencies ==
    Accepted =>
        \A i \in 1..Len(Resources) :
            \A k \in 1..Len(Resources[i].Dependencies) :
                \A j \in 1..Len(Resources) :
                    Resources[j].URN = Resources[i].Dependencies[k] => j > i

MutationChangesMagic ==
    \A x \in SnapNames :
        (/\ snaps[x] # NoSnapshot
         /\ snaps[x].Manifest.Version # ""
         /\ snaps[x].Manifest.Magic = NewMagic(snaps[x].Manifest)
         /\ ViewResources(x)' # ViewResources(x)) =>
            /\ NewMagic(snaps[x].Manifest)' # NewMagic(snaps[x].Manifest)
            /\ MagicCheck(View(x))' # NilError

\* C18: the magic of the manifest changes every time the snapshot is
\* mutated: after a change of the resource sequence or of a resource's
\* fields NewMagic() differs from its value before the change, and the magic
\* check of VerifyIntegrity rejects the snapshot whose stored Magic is the
\* old one.
C18_MagicChangesOnMutation == [][MutationChangesMagic]_vars

\* C19: PreviewThenPrompt skips the confirmation prompt when the preview
\* reports no changes, as it does when AutoApprove is set or the kind is
\* PreviewUpdate.
C19_NoChangesSkipsPrompt ==
    (previewChanges = "no changes") => (pc # "prompt" /\ Prompts = <<>>)

\* The prompt is skipped when AutoApprove is set or the kind is PreviewUpdate.
PromptSkipped ==
    SkipsPrompt(opts, kind) => (pc # "prompt" /\ Prompts = <<>>)

(***************************************************************************)
(* Properties of validateUnsupportedRemoteFlags.                           *)
(***************************************************************************)
\* The flags in the order in which the function checks them, each with the
\* parameter it is given in.
FlagOrder ==
    <<[flag |-> "--expect-no-changes", param |-> "expectNop"],
      [flag |-> "--config", param |-> "configArray"],
      [flag |-> "--config-path", param |-> "configPath"],
      [flag |-> "--client", param |-> "client"],
      [flag |-> "--json", param |-> "jsonDisplay"],
      [flag |-> "--policy-pack", param |-> "policyPackPaths"],
      [flag |-> "--policy-pack-config", param |-> "policyPackConfigPaths"],
      [flag |-> "--refresh", param |-> "refresh"],
      [flag |-> "--show-config", param |-> "showConfig"],
      [flag |-> "--show-replacement-steps", param |-> "showReplacementSteps"],
      [flag |-> "--show-sames", param |-> "showSames"],
      [flag |-> "--show-reads", param |-> "showReads"],
      [flag |-> "--suppress-outputs", param |-> "suppressOutputs"],
      [flag |-> "--secrets-provider", param |-> "secretsProvider"],
      [flag |-> "--target", param |-> "targets"],
      [flag |-> "--replace", param |-> "replaces"],
      [flag |-> "--target-replace", param |-> "targetReplaces"],
      [flag |-> "--target-dependents", param |-> "targetDependents"],
      [flag |-> "--plan", param |-> "planFilePath"],
      [flag |-> "--config-file", param |-> "stackConfigFile"]>>

\* A boolean is set when true, a string when not empty, a list when not
\* empty, secretsProvider when it is not "default".
IsSet(name) ==
    CASE name \in BoolFlags -> flags[name] = TRUE
      [] name \in StringFlags -> flags[name] # ""
      [] name \in ListFlags -> flags[name] # <<>>
      [] name = "secretsProvider" -> flags[name] # "default"
      [] name = "targets" -> flags[name].list # <<>>

SetIndexes == {i \in 1..Len(FlagOrder) : IsSet(FlagOrder[i].param)}

\* C20: validateUnsupportedRemoteFlags returns an error whenever at least one
\* unsupported flag is set and nil exactly when none is; with several set the
\* error names the first of them in the order of the checks.
C20_FirstUnsupportedFlag ==
    (flagsResult # NotCalled) =>
        /\ (flagsResult = NoError) <=> (SetIndexes = {})
        /\ SetIndexes # {} =>
              \E i \in SetIndexes :
                  /\ \A j \in SetIndexes : i <= j
                  /\ flagsResult = NotSupported(FlagOrder[i].flag)

\* Three flags are set, an empty --secrets-provider among them; the error
\* names the first in the order of the checks.
C20_Witness ==
    /\ flags.secretsProvider = ""
    /\ flags.configPath
    /\ flags.stackConfigFile # ""
    /\ flagsResult = NotSupported("--config-path")

\* No flag is set, targets points to an empty list, and nil is returned.
NoFlagSet ==
    /\ SetIndexes = {}
    /\ ~flags.targets.isNil
    /\ flagsResult = NoError

(***************************************************************************)
(* Properties of parseEnv.                                                 *)
(***************************************************************************)
HasEquals(str) == \E i \in 1..Len(str) : str[i] = "="

\* C22: parseEnv accepts exactly the inputs NAME=value with a non-empty NAME:
\* it returns an error if and only if the input has no "=" or nothing before
\* its first "="; the name it returns is the text before the first "=", and
\* the value the text after it, which may be empty or hold further "=".
C22_ParseEnv ==
    (envResult # EnvNotCalled) =>
        /\ (envResult.err # "nil") <=> (~HasEquals(envInput) \/ envInput[1] = "=")
        /\ (envResult.err = "nil") =>
              /\ envResult.name # <<>>
              /\ ~HasEquals(envResult.name)
              /\ envInput = envResult.name \o <<"=">> \o envResult.value
        /\ (envResult.err # "nil") => (envResult.name = <<>> /\ envResult.value = <<>>)

\* An input whose value holds further "=" was accepted.
C22_Witness ==
    /\ envInput = <<"A", "=", "=", "B">>
    /\ envResult = EnvOk(<<"A">>, <<"=", "B">>)

\* An input with an empty value was accepted.
EmptyValueAccepted ==
    /\ envInput = <<"A", "B", "=">>
    /\ envResult = EnvOk(<<"A", "B">>, <<>>)

(***************************************************************************)
(* Properties of runDeployment.                                            *)
(***************************************************************************)
Called == deployResult # "not called"

\* An entry that is not of the form NAME=value with a non-empty NAME.
Malformed(str) == ~HasEquals(str) \/ str[1] = "="

MalformedEntry ==
    \E i \in 1..Len(deployArgs.envVars \o deployArgs.secretEnvVars) :
        Malformed((deployArgs.envVars \o deployArgs.secretEnvVars)[i])

\* The key file is read (no access token given, a key path given) and the
\* read fails.
KeyFileUnreadable ==
    /\ deployArgs.gitAuthAccessToken = ""
    /\ deployArgs.gitAuthSSHPrivateKeyPath # ""
    /\ ~deployArgs.keyFileReadable

BranchAndCommit == deployArgs.gitBranch # "" /\ deployArgs.gitCommit # ""

NoBranchNoCommit == deployArgs.gitBranch = "" /\ deployArgs.gitCommit = ""

RejectedCase ==
    \/ deployArgs.backend # "httpstate"
    \/ ~deployArgs.stackOk
    \/ deployArgs.url = ""
    \/ BranchAndCommit
    \/ NoBranchNoCommit
    \/ MalformedEntry
    \/ KeyFileUnreadable

\* C21: runDeployment requires exactly one of git branch and git commit: it
\* returns an error when both are given and when neither is; and in every
\* rejected case (backend not the service, stack reference not parsable,
\* empty url, branch and commit both or neither, malformed environment
\* entry, unreadable SSH key file) RunDeployment of the backend is not
\* called; in every other case it is called once.
C21_RejectedNeverDeploys ==
    Called =>
        /\ (BranchAndCommit \/ NoBranchNoCommit) => deployResult # "nil"
        /\ RejectedCase => (deployResult # "nil" /\ deployCalls = <<>>)
        /\ ~RejectedCase => Len(deployCalls) = 1

\* A call on the service backend with a branch and a commit was rejected.
C21_Witness ==
    /\ Called
    /\ deployArgs.backend = "httpstate"
    /\ deployArgs.stackOk
    /\ deployArgs.url # ""
    /\ BranchAndCommit
    /\ ~MalformedEntry
    /\ deployResult # "nil"
    /\ deployCalls = <<>>

\* A call was rejected for its key file alone.
RejectedForKeyFile ==
    /\ Called
    /\ deployArgs.backend = "httpstate"
    /\ deployArgs.stackOk
    /\ deployArgs.url # ""
    /\ deployArgs.gitBranch # ""
    /\ deployArgs.gitCommit = ""
    /\ ~MalformedEntry
    /\ KeyFileUnreadable
    /\ deployResult = "reading SSH private key path"

\* The strings a request carries about the source and the operation.
RequestStrings(req) ==
    {req.Source.Git.RepoURL, req.Source.Git.Branch, req.Source.Git.RepoDir,
     req.Operation.Operation}
        \cup {req.Operation.PreRunCommands[i] : i \in 1..Len(req.Operation.PreRunCommands)}

\* C23: when runDeployment is called with a git commit and no branch, the
\* CreateDeploymentRequest passed to RunDeployment identifies that commit as
\* the commit to deploy.
C23_RequestNamesCommit ==
    (Called /\ deployArgs.gitCommit # "" /\ deployArgs.gitBranch = "") =>
        \A i \in 1..Len(deployCalls) :
            deployArgs.gitCommit \in RequestStrings(deployCalls[i])

\* The request of a call with a branch names the branch.
RequestNamesBranch ==
    (Called /\ deployArgs.gitBranch # "") =>
        \A i \in 1..Len(deployCalls) :
            deployCalls[i].Source.Git.Branch = deployArgs.gitBranch

(***************************************************************************)
(* Properties of the step executor.                                        *)
(***************************************************************************)
Goal == execPlan.goal

Started(urn) == stepStatus[urn] \in {StepRunning, StepSucceeded, StepFailed}

\* The resource named urn names other as its parent or as a dependency.
Names(urn, other) ==
    \E i \in 1..Len(Goal) :
        /\ Goal[i].URN = urn
        /\ \/ Goal[i].Parent = other
           \/ \E k \in 1..Len(Goal[i].Dependencies) : Goal[i].Dependencies[k] = other

\* C24: a step for a resource has not started unless the steps of its parent
\* and of each of its declared dependencies have succeeded; among deletes the
\* order is reversed: the delete of a resource has not started unless the
\* deletes of its children and dependents have succeeded.
C24_StartsAfterWhatItDependsOn ==
    \A urn \in DOMAIN stepStatus, other \in DOMAIN stepStatus :
        /\ execPlan.op = "create" /\ Names(urn, other) /\ Started(urn)
               => stepStatus[other] = StepSucceeded
        /\ execPlan.op = "delete" /\ Names(urn, other) /\ Started(other)
               => stepStatus[urn] = StepSucceeded

\* A delete of a resource that others name is in flight.
C24_Witness ==
    /\ execPlan.op = "delete"
    /\ \E urn \in DOMAIN stepStatus, other \in DOMAIN stepStatus :
        /\ Names(urn, other)
        /\ stepStatus[other] = StepRunning

\* A create of a resource with a parent or a dependency is in flight.
DependentCreateRunning ==
    /\ execPlan.op = "create"
    /\ \E urn \in DOMAIN stepStatus, other \in DOMAIN stepStatus :
        /\ Names(urn, other)
        /\ stepStatus[urn] = StepRunning

SucceededURNs == {u \in DOMAIN stepStatus : stepStatus[u] = StepSucceeded}

Interrupted == execResult = "interrupted" /\ ~execPlan.dryRun

\* No step leaves Pending for Running once the cancellation signal is in.
NoStartAfterCancel ==
    cancelRequested =>
        \A u \in DOMAIN stepStatus :
            stepStatus[u] = StepPending => stepStatus'[u] # StepRunning

\* A step in flight at the cancellation comes to its own end.
InFlightFinishes ==
    \A u \in StepURNs :
        (cancelRequested /\ u \in DOMAIN stepStatus /\ stepStatus[u] = StepRunning)
            ~> (stepStatus[u] \in {StepSucceeded, StepFailed})

\* C25 as stated: the snapshot a cancelled run persisted holds exactly the
\* resources whose steps succeeded, each after its parent and dependencies.
C25_PersistsSucceeded ==
    Interrupted =>
        /\ persisted.saves > 0
        /\ URNsOf(persisted.Resources) = SucceededURNs
        /\ Len(persisted.Resources) = Cardinality(SucceededURNs)
        /\ ReferencesEarlier(persisted.Resources)

\* What a cancelled run persisted: the resources whose creates succeeded; in
\* a run of deletes, the resources whose deletes did not succeed.
PersistedAfterCancel ==
    Interrupted =>
        /\ persisted.saves > 0
        /\ URNsOf(persisted.Resources) =
               IF execPlan.op = "delete"
               THEN URNsOf(Goal) \ SucceededURNs
               ELSE SucceededURNs
        /\ Len(persisted.Resources) = Cardinality(URNsOf(persisted.Resources))
        /\ ReferencesEarlier(persisted.Resources)

\* C25, amended: after the cancellation no step starts, the steps in flight
\* finish, and the snapshot persisted holds, each after its parent and
\* dependencies, exactly the resources whose creates succeeded or, in a run
\* of deletes, exactly the resources whose deletes did not succeed.
C25_CancelledRun ==
    /\ []PersistedAfterCancel
    /\ [][NoStartAfterCancel]_vars
    /\ InFlightFinishes

\* A cancelled run of creates ended with a step that succeeded after the
\* cancellation, and with a step that never started.
C25_Witness ==
    /\ Interrupted
    /\ execPlan.op = "create"
    /\ SucceededURNs # {}
    /\ \E u \in DOMAIN stepStatus : stepStatus[u] = StepPending

\* A cancelled run of deletes ended with some deletes done and some not.
CancelledDeletes ==
    /\ Interrupted
    /\ execPlan.op = "delete"
    /\ SucceededURNs # {}
    /\ \E u \in DOMAIN stepStatus : stepStatus[u] = StepPending

\* A step is in flight when the cancellation signal is in.
RunningAtCancel ==
    /\ cancelRequested
    /\ execResult = "running"
    /\ \E u \in DOMAIN stepStatus : stepStatus[u] = StepRunning

====
